---- MODULE Spec2Model ----
(***************************************************************************)
(* A model of Pyscription: the autonomous agent (core/autonomous_agent.py) *)
(* driven by the agent session (cli/agent_mode.py), and the local AI       *)
(* interface (core/local_ai.py).                                           *)
(***************************************************************************)
EXTENDS Integers, Sequences, FiniteSets, TLC

VARIABLES
    tasks,            \* AutonomousPythonAgent.tasks: the dict, in insertion order
    execution_log,    \* AutonomousPythonAgent.execution_log
    agent_memory,     \* AutonomousPythonAgent.agent_memory
    is_running,       \* AutonomousPythonAgent.is_running
    disk,             \* the file .pyscription_agent_state.json
    now,              \* the wall clock, in seconds
    pc,               \* where the session's control is
    cur,              \* the identity of the task being executed, or NoId
    loop,             \* the locals of the running execute / auto command
    conversation_history,  \* LocalAIInterface.conversation_history
    model,            \* LocalAIInterface.backend.model
    asked,            \* the last call of the interface: its inputs and what the backend did
    reply,            \* what that call returned
    appended,         \* every entry appended to the history since it was last cleared
    interactions_file,  \* the file interactions.json: the persisted interaction log
    mentor_call,      \* the last operation of the mentor: its inputs and what it returned
    discovered_patterns,  \* PatternDiscovery.discovered_patterns
    patterns_file,    \* the file discovered_patterns.json
    discovery,        \* the last operation of the pattern store and what it found
    vocabulary,       \* DocumentProcessor.vectorizer.vocabulary
    doc_embeddings,   \* DocumentProcessor.doc_embeddings
    doc_index,        \* DocumentProcessor.doc_index
    docs_dir,         \* the three files the processor saves in docs_dir
    ingested,         \* the last operation of the processor and what it returned
    project_files,    \* the targets of refactor tasks and their backups, as stored
    refactoring,      \* where _execute_refactor_task is, and its locals
    refactor_clock,   \* time.time() of the refactoring, in seconds
    invocation,       \* the command line of the process and the behaviour main ran
    session,          \* the interactive session of the process, and its terminal
    emergency         \* the emergency scan of the process: its files and findings

agentVars == <<tasks, execution_log, agent_memory, is_running, disk, now, pc, cur, loop>>
chatVars == <<conversation_history, model, asked, reply, appended>>
mentorVars == <<interactions_file, mentor_call>>
storeVars == <<discovered_patterns, patterns_file, discovery>>
docsVars == <<vocabulary, doc_embeddings, doc_index, docs_dir, ingested>>
refactorVars == <<project_files, refactoring, refactor_clock>>
toolVars == <<mentorVars, storeVars, docsVars, refactorVars, invocation, session, emergency>>
exceptMentor == <<agentVars, chatVars, storeVars, docsVars, refactorVars, invocation, session, emergency>>
exceptStore == <<agentVars, chatVars, mentorVars, docsVars, refactorVars, invocation, session, emergency>>
exceptMentorAndStore == <<agentVars, chatVars, docsVars, refactorVars, invocation, session, emergency>>
exceptDocs == <<agentVars, chatVars, mentorVars, storeVars, refactorVars, invocation, session, emergency>>
exceptDispatcher == <<agentVars, chatVars, mentorVars, storeVars, docsVars, refactorVars, session, emergency>>
exceptSession == <<agentVars, chatVars, mentorVars, storeVars, docsVars, refactorVars, invocation, emergency>>
exceptRefactor == <<agentVars, chatVars, mentorVars, storeVars, docsVars, invocation, session, emergency>>
exceptEmergency == <<agentVars, chatVars, mentorVars, storeVars, docsVars, refactorVars, invocation, session>>
vars == <<agentVars, chatVars, toolVars>>

-----------------------------------------------------------------------------
(* Bounds of the model *)

\* MaxTasks: the tasks planning may put in the task map, and the tasks all the
\* plan commands of a run may add together. ProjectFiles: the files of the
\* project. MaxTicks: the minutes that pass.
MaxTasks == 2
ProjectFiles == 1
MaxTicks == 1

\* The N of execute N and of auto N, and the minutes of auto N minutes
Counts == {1, 2}
TimeLimits == {0, 1}

-----------------------------------------------------------------------------
(* Values *)

\* None of an optional datetime field, and of an optional string / dict field
NoneTime == -1
None == "None"
\* JSON null
Null == "null"
NoId == <<"none", 0, 0>>

\* class TaskStatus(Enum): member -> value
StatusMembers == {"PENDING", "IN_PROGRESS", "COMPLETED", "FAILED", "BLOCKED"}

StatusValue(s) ==
    CASE s = "PENDING" -> "pending"
      [] s = "IN_PROGRESS" -> "in_progress"
      [] s = "COMPLETED" -> "completed"
      [] s = "FAILED" -> "failed"
      [] s = "BLOCKED" -> "blocked"

\* TaskStatus(value): the member with that value; "ValueError" when there is none
TaskStatus(v) ==
    IF \E s \in StatusMembers : StatusValue(s) = v
    THEN CHOOSE s \in StatusMembers : StatusValue(s) = v
    ELSE "ValueError"

\* class TaskPriority(Enum): member -> value. The values are strings, written
\* here letter by letter (a = 1 .. z = 26) because the scheduler orders by them.
PriorityMembers == {"LOW", "MEDIUM", "HIGH", "CRITICAL"}

PriorityValue(p) ==
    CASE p = "LOW" -> <<12, 15, 23>>
      [] p = "MEDIUM" -> <<13, 5, 4, 9, 21, 13>>
      [] p = "HIGH" -> <<8, 9, 7, 8>>
      [] p = "CRITICAL" -> <<3, 18, 9, 20, 9, 3, 1, 12>>

\* TaskPriority(value)
TaskPriority(v) ==
    IF \E p \in PriorityMembers : PriorityValue(p) = v
    THEN CHOOSE p \in PriorityMembers : PriorityValue(p) = v
    ELSE "ValueError"

\* str < str of Python: lexicographic, a proper prefix is smaller
RECURSIVE StrLess(_, _)
StrLess(a, b) ==
    IF b = <<>> THEN FALSE
    ELSE IF a = <<>> THEN TRUE
    ELSE IF Head(a) # Head(b) THEN Head(a) < Head(b)
    ELSE StrLess(Tail(a), Tail(b))

\* datetime.isoformat() and datetime.fromisoformat()
IsoFormat(t) == <<"iso", t>>
FromIsoFormat(s) == s[2]

\* The fields of the dataclass Task
TaskFields ==
    {"id", "title", "description", "task_type", "priority", "status",
     "file_targets", "prerequisites", "estimated_time", "progress",
     "error_message", "results", "created_at", "started_at", "completed_at"}

\* Task(id, title, description, task_type, priority, status, file_targets,
\*      prerequisites, estimated_time, created_at=...) with the defaults
NewTask(id, title, description, task_type, priority, file_targets, prerequisites, estimated_time, created_at) ==
    [id |-> id, title |-> title, description |-> description,
     task_type |-> task_type, priority |-> priority, status |-> "PENDING",
     file_targets |-> file_targets, prerequisites |-> prerequisites,
     estimated_time |-> estimated_time, progress |-> 0,
     error_message |-> None, results |-> None, created_at |-> created_at,
     started_at |-> NoneTime, completed_at |-> NoneTime]

-----------------------------------------------------------------------------
(* The task dict: a sequence of Task records, one per key, in insertion order *)

Ids(ts) == {ts[i].id : i \in 1..Len(ts)}

IndexOf(ts, id) == CHOOSE i \in 1..Len(ts) : ts[i].id = id

Get(ts, id) == ts[IndexOf(ts, id)]

\* self.tasks[task.id] = task: a new key goes last, an existing key keeps its place
Put(ts, t) ==
    IF t.id \in Ids(ts)
    THEN [ts EXCEPT ![IndexOf(ts, t.id)] = t]
    ELSE Append(ts, t)

RECURSIVE PutAll(_, _)
PutAll(ts, new) ==
    IF new = <<>> THEN ts ELSE PutAll(Put(ts, Head(new)), Tail(new))

-----------------------------------------------------------------------------
(* Persistence: _save_agent_state and _load_agent_state *)

\* self.execution_log[-100:]
LogKeep == 100

LastN(s, n) == IF Len(s) <= n THEN s ELSE SubSeq(s, Len(s) - n + 1, Len(s))

SaveTime(t) == IF t # NoneTime THEN IsoFormat(t) ELSE <<Null>>

SaveOptional(x) == IF x = None THEN Null ELSE x

\* A save that writes the status member's name where load expects its value
SaveTaskStatusName(t) ==
    [id |-> t.id, title |-> t.title, description |-> t.description,
     task_type |-> t.task_type, priority |-> PriorityValue(t.priority),
     status |-> t.status, file_targets |-> t.file_targets,
     prerequisites |-> t.prerequisites, estimated_time |-> t.estimated_time,
     progress |-> t.progress, error_message |-> SaveOptional(t.error_message),
     results |-> SaveOptional(t.results),
     created_at |-> SaveTime(t.created_at),
     started_at |-> SaveTime(t.started_at),
     completed_at |-> SaveTime(t.completed_at)]

\* One value of the 'tasks' object written by _save_agent_state
SaveTask(t) ==
    [id |-> t.id, title |-> t.title, description |-> t.description,
     task_type |-> t.task_type, priority |-> PriorityValue(t.priority),
     status |-> StatusValue(t.status), file_targets |-> t.file_targets,
     prerequisites |-> t.prerequisites, estimated_time |-> t.estimated_time,
     progress |-> t.progress, error_message |-> SaveOptional(t.error_message),
     results |-> SaveOptional(t.results),
     created_at |-> SaveTime(t.created_at),
     started_at |-> SaveTime(t.started_at),
     completed_at |-> SaveTime(t.completed_at)]

\* The content of the state file after _save_agent_state
SavedState(ts, log, memory) ==
    [kind |-> "json",
     tasks |-> [i \in 1..Len(ts) |-> SaveTask(ts[i])],
     execution_log |-> LastN(log, LogKeep),
     agent_memory |-> memory]

LoadTime(s) == IF s # <<Null>> THEN FromIsoFormat(s) ELSE NoneTime

LoadOptional(x) == IF x = Null THEN None ELSE x

\* Whether Task(...) can be built from a record of the file: every field is
\* there (no KeyError) and priority and status are enum values (no ValueError)
Loadable(data) ==
    /\ TaskFields \subseteq DOMAIN data
    /\ TaskPriority(data.priority) # "ValueError"
    /\ TaskStatus(data.status) # "ValueError"

\* The Task built from one record of the file
LoadTask(data) ==
    [id |-> data.id, title |-> data.title, description |-> data.description,
     task_type |-> data.task_type, priority |-> TaskPriority(data.priority),
     status |-> TaskStatus(data.status), file_targets |-> data.file_targets,
     prerequisites |-> data.prerequisites, estimated_time |-> data.estimated_time,
     progress |-> data.progress, error_message |-> LoadOptional(data.error_message),
     results |-> LoadOptional(data.results),
     created_at |-> LoadTime(data.created_at),
     started_at |-> LoadTime(data.started_at),
     completed_at |-> LoadTime(data.completed_at)]

\* The restore loop: records are taken in file order and stored one by one;
\* the first record that cannot be built raises, which ends the loop with the
\* tasks stored so far left in place.
RECURSIVE LoadTasks(_, _)
LoadTasks(recs, acc) ==
    IF recs = <<>> THEN [tasks |-> acc, raised |-> FALSE]
    ELSE IF ~Loadable(Head(recs)) THEN [tasks |-> acc, raised |-> TRUE]
    ELSE LoadTasks(Tail(recs), Put(acc, LoadTask(Head(recs))))

\* The agent state after __init__ over the state file `file`
LoadAgentState(file) ==
    IF file.kind # "json"
    THEN [tasks |-> <<>>, execution_log |-> <<>>, agent_memory |-> {}]
    ELSE LET r == LoadTasks(file.tasks, <<>>) IN
         IF r.raised
         THEN [tasks |-> r.tasks, execution_log |-> <<>>, agent_memory |-> {}]
         ELSE [tasks |-> r.tasks, execution_log |-> file.execution_log,
               agent_memory |-> file.agent_memory]

-----------------------------------------------------------------------------
(* Scheduling: execute_next_task *)

\* A stand-in for a missing prerequisite that counts as completed
PrereqStatusMissingCompleted(ts, id) ==
    IF id \in Ids(ts) THEN Get(ts, id).status ELSE "COMPLETED"

\* self.tasks.get(prereq_id, Task(..., TaskStatus.FAILED, ...)).status
PrereqStatus(ts, id) == IF id \in Ids(ts) THEN Get(ts, id).status ELSE "FAILED"

IsReady(ts, t) ==
    /\ t.status = "PENDING"
    /\ \A i \in 1..Len(t.prerequisites) :
          PrereqStatus(ts, t.prerequisites[i]) = "COMPLETED"

\* ready_tasks, in dict order
ReadyTasks(ts) == SelectSeq(ts, LAMBDA t : IsReady(ts, t))

\* A key that orders the priorities by urgency: critical, high, medium, low
KeyLessByUrgency(a, b) ==
    LET urgency == [p \in PriorityMembers |->
                       CASE p = "CRITICAL" -> 0 [] p = "HIGH" -> 1
                         [] p = "MEDIUM" -> 2 [] p = "LOW" -> 3] IN
    \/ urgency[a.priority] < urgency[b.priority]
    \/ /\ a.priority = b.priority
       /\ a.created_at < b.created_at

\* key=lambda t: (t.priority.value, t.created_at)
KeyLess(a, b) ==
    \/ StrLess(PriorityValue(a.priority), PriorityValue(b.priority))
    \/ /\ a.priority = b.priority
       /\ a.created_at < b.created_at

\* ready_tasks.sort(key=...); next_task = ready_tasks[0]. The sort is stable:
\* of the tasks with the smallest key, the first in dict order comes first.
NextTask(ts) ==
    LET r == ReadyTasks(ts)
        i == CHOOSE i \in 1..Len(r) :
                /\ \A j \in 1..Len(r) : ~KeyLess(r[j], r[i])
                /\ \A j \in 1..(i - 1) : KeyLess(r[i], r[j])
    IN r[i]

\* _log_action
LogEntry(t, action) == [timestamp |-> IsoFormat(t), action |-> action]

-----------------------------------------------------------------------------
(* Planning: analyze_and_plan *)

\* The goals of the model, by the keyword group they fall in
Goals == {"refactor", "document"}

\* ProjectAnalyzer.analyze_project over the project of the model: n files
\* f1..fn, each of complexity above 10 and with functions that lack a
\* docstring, none with a function of local complexity above 5 or a class.
\* The analysis is written as its number of files.
AnalyzeProject == ProjectFiles

\* f"refactor_{counter}_{len(tasks)}" and the like
MakeId(prefix, counter, index) == <<prefix, counter, index>>

\* int(time.time())
TimeCounter(t) == t

\* _plan_refactoring_tasks: one task per file of complexity above 10
PlanRefactoringTasks(analysis, counter, t) ==
    [i \in 1..analysis |->
        NewTask(MakeId("refactor", counter, i - 1),
                <<"Refactor high complexity in", i>>,
                <<"Break down complex functions and reduce nesting in", i>>,
                "refactor", "HIGH", <<i>>, <<>>, 30, t)]

\* _plan_documentation_tasks: one task per file whose functions lack docstrings
PlanDocumentationTasks(analysis, counter, t) ==
    [i \in 1..analysis |->
        NewTask(MakeId("doc_functions", counter, i - 1),
                <<"Add function docstrings to", i>>,
                <<"Add docstrings to functions", i>>,
                "document", "MEDIUM", <<i>>, <<>>, 15, t)]

\* _generate_task_plan: the first keyword group the goal falls in
GenerateTaskPlan(goal, analysis, t) ==
    IF goal = "refactor" THEN PlanRefactoringTasks(analysis, TimeCounter(t), t)
    ELSE PlanDocumentationTasks(analysis, TimeCounter(t), t)

\* self._log_action(f"Added task: {task.title}") for each planned task
AddedLog(planned, t) ==
    [i \in 1..Len(planned) |-> LogEntry(t, <<"Added task", planned[i].title>>)]

\* The number of "Added task" entries of a log
Added(log) == Len(SelectSeq(log, LAMBDA e : e.action[1] = "Added task"))

\* self.agent_memory[key] = value
SetMemory(memory, key, value) ==
    {kv \in memory : kv[1] # key} \cup {<<key, value>>}

-----------------------------------------------------------------------------
(* The session: AgentCLI.run_interactive_agent and _handle_agent_command *)

SecondsPerMinute == 60

NoLoop ==
    [count |-> 0, executed |-> 0, max_tasks |-> 0, time_limit |-> 0,
     start_time |-> 0, tasks_completed |-> 0,
     results_completed |-> 0, results_failed |-> 0,
     completed_tasks |-> <<>>, failed_tasks |-> <<>>]


\* The state files an agent may be constructed over
TaskA == NewTask(MakeId("a", 0, 0), <<"A">>, <<"A">>, "analysis", "LOW", <<1>>, <<>>, 5, 0)
TaskB == NewTask(MakeId("b", 0, 0), <<"B">>, <<"B">>, "document", "LOW", <<1>>,
                 <<MakeId("a", 0, 0)>>, 5, 0)
TaskC == NewTask(MakeId("c", 0, 0), <<"C">>, <<"C">>, "bogus", "CRITICAL", <<1>>,
                 <<MakeId("gone", 0, 0)>>, 5, 0)
TaskD == NewTask(MakeId("d", 0, 0), <<"D">>, <<"D">>, "bogus", "CRITICAL", <<>>, <<>>, 5, 0)
TaskE == NewTask(MakeId("e", 0, 0), <<"E">>, <<"E">>, "bogus", "MEDIUM", <<1>>, <<>>, 5, 0)

\* A record without the 'status' key, and one whose status is no enum value
WithoutStatus(data) == [k \in DOMAIN data \ {"status"} |-> data[k]]
UnknownStatus(data) == [data EXCEPT !.status = "paused"]

JsonFile(ts) == [kind |-> "json", tasks |-> ts, execution_log |-> <<>>, agent_memory |-> {}]

InitialFiles ==
    {[kind |-> "absent"],
     [kind |-> "corrupt"],
     JsonFile(<<SaveTask(TaskA), SaveTask(TaskB), SaveTask(TaskC)>>),
     JsonFile(<<SaveTask(TaskD), SaveTask(TaskA)>>),
     JsonFile(<<SaveTask(TaskE), SaveTask(TaskA)>>),
     JsonFile(<<SaveTask(TaskA), WithoutStatus(SaveTask(TaskD))>>),
     JsonFile(<<UnknownStatus(SaveTask(TaskA)), SaveTask(TaskD)>>)}

\* AutonomousPythonAgent.__init__ over the file on disk
Construct(file) ==
    LET s == LoadAgentState(file) IN
    /\ tasks' = s.tasks
    /\ execution_log' = s.execution_log
    /\ agent_memory' = s.agent_memory
    /\ is_running' = FALSE

AgentInit ==
    /\ disk \in InitialFiles
    /\ LET s == LoadAgentState(disk) IN
       /\ tasks = s.tasks
       /\ execution_log = s.execution_log
       /\ agent_memory = s.agent_memory
    /\ is_running = FALSE
    /\ now = 0
    /\ pc = "prompt"
    /\ cur = NoId
    /\ loop = NoLoop

\* Time passes while the session waits at its prompt and while a handler
\* runs. The clock is read at whole minutes: it advances by a minute at a time.
Tick ==
    /\ pc \in {"prompt", "execute_task", "auto_task"}
    /\ now + SecondsPerMinute <= MaxTicks * SecondsPerMinute
    /\ now' = now + SecondsPerMinute
    /\ UNCHANGED <<tasks, execution_log, agent_memory, is_running, disk, pc, cur, loop>>
    /\ UNCHANGED <<chatVars, toolVars>>

\* plan <goal>
Plan ==
    /\ pc = "prompt"
    /\ \E goal \in Goals :
          LET analysis == AnalyzeProject
              planned == GenerateTaskPlan(goal, analysis, now) IN
          /\ Len(PutAll(tasks, planned)) <= MaxTasks
          /\ Added(execution_log) + Len(planned) <= MaxTasks
          /\ agent_memory' = SetMemory(agent_memory, "last_analysis", analysis)
          /\ tasks' = PutAll(tasks, planned)
          /\ execution_log' = execution_log \o AddedLog(planned, now)
    /\ UNCHANGED <<is_running, disk, now, pc, cur, loop>>
    /\ UNCHANGED <<chatVars, toolVars>>

\* execute [N]
CmdExecute ==
    /\ pc = "prompt"
    /\ \E n \in Counts : loop' = [NoLoop EXCEPT !.count = n]
    /\ pc' = "execute"
    /\ UNCHANGED <<tasks, execution_log, agent_memory, is_running, disk, now, cur>>
    /\ UNCHANGED <<chatVars, toolVars>>

\* auto [N] [minutes], up to the first test of the loop condition
CmdAuto ==
    /\ pc = "prompt"
    /\ \E m \in Counts, limit \in TimeLimits :
          loop' = [NoLoop EXCEPT !.max_tasks = m, !.time_limit = limit,
                                 !.start_time = now]
    /\ is_running' = TRUE
    /\ pc' = "auto"
    /\ UNCHANGED <<tasks, execution_log, agent_memory, disk, now, cur>>
    /\ UNCHANGED <<chatVars, toolVars>>

\* stop
CmdStop ==
    /\ pc = "prompt"
    /\ is_running' = FALSE
    /\ UNCHANGED <<tasks, execution_log, agent_memory, disk, now, pc, cur, loop>>
    /\ UNCHANGED <<chatVars, toolVars>>

\* clear, confirmed with y
CmdClear ==
    /\ pc = "prompt"
    /\ tasks # <<>>
    /\ tasks' = <<>>
    /\ UNCHANGED <<execution_log, agent_memory, is_running, disk, now, pc, cur, loop>>
    /\ UNCHANGED <<chatVars, toolVars>>

\* quit
CmdQuit ==
    /\ pc = "prompt"
    /\ pc' = "ended"
    /\ UNCHANGED <<tasks, execution_log, agent_memory, is_running, disk, now, cur, loop>>
    /\ UNCHANGED <<chatVars, toolVars>>

\* The next process: a new AgentCLI over the same project directory
Restart ==
    /\ pc = "ended"
    /\ Construct(disk)
    /\ pc' = "prompt"
    /\ cur' = NoId
    /\ loop' = NoLoop
    /\ UNCHANGED <<disk, now>>
    /\ UNCHANGED <<chatVars, toolVars>>

-----------------------------------------------------------------------------
(* Task execution: execute_next_task and _execute_task *)

KnownTypes == {"analysis", "refactor", "document", "optimize", "generate"}

\* What a handler may return, and what it may raise (a target that cannot be
\* read, a failing mentor call)
HandlerResults == {"results"}
HandlerErrors == {"OSError"}

\* str(ValueError(f"Unknown task type: {task.task_type}"))
UnknownTypeError(task_type) == "Unknown task type"

\* The first half of _execute_task: status and start timestamp
BeginTask(ts, id, t) ==
    [ts EXCEPT ![IndexOf(ts, id)] =
        [@ EXCEPT !.status = "IN_PROGRESS", !.started_at = t]]

\* The try block after the handler has returned `results`
CompleteTask(ts, id, results, t) ==
    [ts EXCEPT ![IndexOf(ts, id)] =
        [@ EXCEPT !.results = results, !.status = "COMPLETED",
                  !.progress = 1, !.completed_at = t]]

\* An except block that marks the task failed and drops the exception text
FailTaskNoMessage(ts, id, e) ==
    [ts EXCEPT ![IndexOf(ts, id)] = [@ EXCEPT !.status = "FAILED"]]

\* An except block that puts the task back in the queue
FailTaskBackToPending(ts, id, e) ==
    [ts EXCEPT ![IndexOf(ts, id)] =
        [@ EXCEPT !.status = "PENDING", !.error_message = e]]

\* The except block: the handler raised `e`
FailTask(ts, id, e) ==
    [ts EXCEPT ![IndexOf(ts, id)] =
        [@ EXCEPT !.status = "FAILED", !.error_message = e]]

\* execute_next_task up to the handler call, from the loop at `from`
StartTask(from, to) ==
    /\ pc = from
    /\ ReadyTasks(tasks) # <<>>
    /\ LET next_task == NextTask(tasks) IN
       /\ tasks' = BeginTask(tasks, next_task.id, now)
       /\ cur' = next_task.id
    /\ pc' = to
    /\ UNCHANGED <<execution_log, agent_memory, is_running, disk, now, loop>>

\* The tally of the loop that called execute_next_task, once it has returned
\* `task`: lines 138-143 of the session for execute, lines 580-586 for auto
Tally(l, from, task) ==
    IF from = "execute_task"
    THEN [l EXCEPT !.count = @ - 1, !.executed = @ + 1]
    ELSE IF task.status = "COMPLETED"
    THEN [l EXCEPT !.tasks_completed = @ + 1, !.results_completed = @ + 1,
                   !.completed_tasks = Append(@, task.title)]
    ELSE IF task.status = "FAILED"
    THEN [l EXCEPT !.results_failed = @ + 1,
                   !.failed_tasks = Append(@, task.title)]
    ELSE l

LoopOf(from) == IF from = "execute_task" THEN "execute" ELSE "auto"

\* The handler returns: the task is completed, logged and saved, and
\* execute_next_task returns it to the loop
TaskCompletes ==
    /\ pc \in {"execute_task", "auto_task"}
    /\ Get(tasks, cur).task_type \in KnownTypes
    /\ \E results \in HandlerResults :
          tasks' = CompleteTask(tasks, cur, results, now)
    /\ execution_log' =
          Append(execution_log, LogEntry(now, <<"Completed task", Get(tasks, cur).title>>))
    /\ disk' = SavedState(tasks', execution_log', agent_memory)
    /\ loop' = Tally(loop, pc, Get(tasks', cur))
    /\ pc' = LoopOf(pc)
    /\ cur' = NoId
    /\ UNCHANGED <<agent_memory, is_running, now>>
    /\ UNCHANGED <<chatVars, toolVars>>

\* What the handler of a task raises, if it raises
RaisedBy(task) ==
    IF task.task_type \in KnownTypes THEN HandlerErrors
    ELSE {UnknownTypeError(task.task_type)}

\* The handler raises: the task is failed, logged and saved, and
\* execute_next_task returns it to the loop
TaskFails ==
    /\ pc \in {"execute_task", "auto_task"}
    /\ \E e \in RaisedBy(Get(tasks, cur)) :
          /\ tasks' = FailTask(tasks, cur, e)
          /\ execution_log' =
                Append(execution_log,
                       LogEntry(now, <<"Failed task", Get(tasks, cur).title, e>>))
    /\ disk' = SavedState(tasks', execution_log', agent_memory)
    /\ loop' = Tally(loop, pc, Get(tasks', cur))
    /\ pc' = LoopOf(pc)
    /\ cur' = NoId
    /\ UNCHANGED <<agent_memory, is_running, now>>
    /\ UNCHANGED <<chatVars, toolVars>>

\* for _ in range(count): the next iteration of execute
ExecuteNext ==
    /\ loop.count > 0
    /\ StartTask("execute", "execute_task")
    /\ UNCHANGED <<chatVars, toolVars>>

\* execute ends: the count is used up, or no task is ready
ExecuteEnds ==
    /\ pc = "execute"
    /\ loop.count = 0 \/ ReadyTasks(tasks) = <<>>
    /\ pc' = "prompt"
    /\ loop' = NoLoop
    /\ UNCHANGED <<tasks, execution_log, agent_memory, is_running, disk, now, cur>>
    /\ UNCHANGED <<chatVars, toolVars>>

\* while self.is_running and tasks_completed < max_tasks and elapsed < limit
SessionContinues(l, running, t) ==
    /\ running
    /\ l.tasks_completed < l.max_tasks
    /\ (t - l.start_time) < l.time_limit * SecondsPerMinute

\* One more iteration of run_autonomous_session
AutoNext ==
    /\ SessionContinues(loop, is_running, now)
    /\ StartTask("auto", "auto_task")
    /\ UNCHANGED <<chatVars, toolVars>>

\* run_autonomous_session returns: the loop condition fails or no task is ready
AutoEnds ==
    /\ pc = "auto"
    /\ ~SessionContinues(loop, is_running, now) \/ ReadyTasks(tasks) = <<>>
    /\ pc' = "prompt"
    /\ loop' = NoLoop
    /\ UNCHANGED <<tasks, execution_log, agent_memory, is_running, disk, now, cur>>
    /\ UNCHANGED <<chatVars, toolVars>>

\* Ctrl+C. KeyboardInterrupt is no Exception: raised inside a handler it
\* passes the except clause of _execute_task, so the task stays as it is and
\* nothing is saved. Under auto the session catches it, stops the agent and
\* returns to the prompt; under execute and at the prompt it ends the session.
Interrupt ==
    /\ pc # "ended"
    /\ is_running' = (IF pc = "prompt" THEN is_running ELSE FALSE)
    /\ pc' = IF pc \in {"auto", "auto_task"} THEN "prompt" ELSE "ended"
    /\ cur' = NoId
    /\ loop' = NoLoop
    /\ UNCHANGED <<tasks, execution_log, agent_memory, disk, now>>
    /\ UNCHANGED <<chatVars, toolVars>>

AgentNext ==
    \/ Tick
    \/ Plan
    \/ CmdExecute
    \/ CmdAuto
    \/ CmdStop
    \/ CmdClear
    \/ CmdQuit
    \/ Restart
    \/ ExecuteNext
    \/ ExecuteEnds
    \/ AutoNext
    \/ AutoEnds
    \/ TaskCompletes
    \/ TaskFails
    \/ Interrupt

-----------------------------------------------------------------------------
(* The local AI interface: texts *)

\* A text of the user is a sequence of characters, so that lower() and the
\* substring test of Python can be computed on it (the backquote is written
\* "(backtick)"); a fixed text of the program is a sequence of whole strings,
\* one for each piece the program puts together.

UpperCase ==
    <<"A", "B", "C", "D", "E", "F", "G", "H", "I", "J", "K", "L", "M", "N",
      "O", "P", "Q", "R", "S", "T", "U", "V", "W", "X", "Y", "Z">>

LowerCase ==
    <<"a", "b", "c", "d", "e", "f", "g", "h", "i", "j", "k", "l", "m", "n",
      "o", "p", "q", "r", "s", "t", "u", "v", "w", "x", "y", "z">>

\* The lower-case letter of each upper-case letter
LowerOf ==
    [c \in {UpperCase[i] : i \in 1..Len(UpperCase)} |->
        LowerCase[CHOOSE i \in 1..Len(UpperCase) : UpperCase[i] = c]]

\* str.lower() on one character
LowerChar(c) == IF c \in DOMAIN LowerOf THEN LowerOf[c] ELSE c

\* message.lower(), as a sequence
Lower(text) ==
    SubSeq([i \in 1..Len(text) |-> LowerChar(text[i])], 1, Len(text))

\* word in text
Contains(text, word) ==
    \E i \in 0..(Len(text) - Len(word)) :
        \A j \in 1..Len(word) : text[i + j] = word[j]

\* any(word in text for word in words)
AnyIn(words, text) == \E i \in 1..Len(words) : Contains(text, words[i])

\* " ".join(words)
RECURSIVE Join(_)
Join(words) ==
    IF Len(words) = 0 THEN <<>>
    ELSE IF Len(words) = 1 THEN words[1]
    ELSE words[1] \o <<" ">> \o Join(Tail(words))

\* str(n) for the small numbers the model puts into texts
Digits == <<"0", "1", "2", "3", "4", "5", "6", "7", "8", "9", "10", "11", "12">>
Str(n) == Digits[n + 1]

Kw_decorator ==
    <<"d", "e", "c", "o", "r", "a", "t", "o", "r">>

Kw_decorators ==
    <<"d", "e", "c", "o", "r", "a", "t", "o", "r", "s">>

Kw_singleton ==
    <<"s", "i", "n", "g", "l", "e", "t", "o", "n">>

Kw_design_pattern ==
    <<"d", "e", "s", "i", "g", "n", " ", "p", "a", "t", "t", "e", "r", "n">>

Kw_exception ==
    <<"e", "x", "c", "e", "p", "t", "i", "o", "n">>

Kw_error ==
    <<"e", "r", "r", "o", "r">>

Kw_try ==
    <<"t", "r", "y">>

Kw_catch ==
    <<"c", "a", "t", "c", "h">>

Kw_list_comprehension ==
    <<"l", "i", "s", "t", " ", "c", "o", "m", "p", "r", "e", "h", "e", "n",
      "s", "i", "o", "n">>

Kw_comprehension ==
    <<"c", "o", "m", "p", "r", "e", "h", "e", "n", "s", "i", "o", "n">>

Kw_class ==
    <<"c", "l", "a", "s", "s">>

Kw_object ==
    <<"o", "b", "j", "e", "c", "t">>

Kw_oop ==
    <<"o", "o", "p">>

Kw_analyze ==
    <<"a", "n", "a", "l", "y", "z", "e">>

Kw_code ==
    <<"c", "o", "d", "e">>

\* The keyword lists of _fallback_response, in the order of its branches
DecoratorWords == <<Kw_decorator, Kw_decorators>>
PatternWords == <<Kw_singleton, Kw_design_pattern>>
ExceptionWords == <<Kw_exception, Kw_error, Kw_try, Kw_catch>>
ComprehensionWords == <<Kw_list_comprehension, Kw_comprehension>>
ClassWords == <<Kw_class, Kw_object, Kw_oop>>

-----------------------------------------------------------------------------
(* The local AI interface: the offline answers *)

\* A pattern of the pattern store, as ml_context['patterns'] lists it
SingletonPattern ==
    [type |-> "design_pattern", pattern |-> "singleton",
     description |->
        <<"S", "i", "n", "g", "l", "e", "t", "o", "n", " ", "d", "e", "s",
          "i", "g", "n", " ", "p", "a", "t", "t", "e", "r", "n", " ", "d",
          "e", "t", "e", "c", "t", "e", "d">>]

LongMethodPattern ==
    [type |-> "code_smell", pattern |-> "long_method",
     description |->
        <<"L", "o", "n", "g", " ", "m", "e", "t", "h", "o", "d", " ", "\"",
          "D", "e", "c", "o", "r", "a", "t", "o", "r", "\"">>]

\* A code analysis, as ml_context['analysis'] holds it
NoAnalysis ==
    [keys |-> {}, syntax_valid |-> TRUE, error |-> "", complexity |-> 1,
     functions |-> <<>>, classes |-> <<>>, imports |-> <<>>]

ValidAnalysis ==
    [keys |-> {"syntax_valid", "complexity", "functions", "classes", "imports"},
     syntax_valid |-> TRUE, error |-> "", complexity |-> 11,
     functions |-> <<"main">>, classes |-> <<>>, imports |-> <<"os">>]

InvalidAnalysis ==
    [keys |-> {"syntax_valid", "error"},
     syntax_valid |-> FALSE, error |-> "invalid syntax", complexity |-> 1,
     functions |-> <<>>, classes |-> <<>>, imports |-> <<>>]

\* ml_context: None is the context without keys
Context(keys, patterns, available_docs, analysis) ==
    [keys |-> keys, patterns |-> patterns, available_docs |-> available_docs,
     analysis |-> analysis]

NoContext == Context({}, <<>>, FALSE, NoAnalysis)

\* The contexts the mentor builds for a question (patterns, available_docs),
\* and contexts that carry a code analysis
Contexts ==
    {NoContext,
     Context({"patterns", "available_docs"}, <<>>, FALSE, NoAnalysis),
     Context({"patterns", "available_docs"}, <<SingletonPattern>>, TRUE, NoAnalysis),
     Context({"patterns", "available_docs"}, <<SingletonPattern, LongMethodPattern>>,
             FALSE, NoAnalysis),
     Context({"analysis"}, <<>>, FALSE, ValidAnalysis),
     Context({"analysis"}, <<>>, FALSE, InvalidAnalysis)}

\* ml_context and ml_context.get('patterns')
HasPatterns(ml_context) ==
    /\ ml_context.keys # {}
    /\ "patterns" \in ml_context.keys
    /\ ml_context.patterns # <<>>

\* ml_context and ml_context.get('analysis')
HasAnalysis(ml_context) ==
    /\ ml_context.keys # {}
    /\ "analysis" \in ml_context.keys
    /\ ml_context.analysis.keys # {}

DecoratorsText == "**Python Decorators Explained**"
PatternsText == "**Design Patterns in Python**"
ExceptionsText == "**Exception Handling in Python**"
ComprehensionsText == "**List Comprehensions in Python**"
ClassesText == "**Python Classes and Objects**"
AnalyzeText == "I can analyze Python code for patterns, complexity, and potential improvements. Paste your code and I'll provide detailed feedback!"
GeneralText == "**Pyscription (Offline Mode)**"
InstallText == "For full conversational AI, install Ollama:"

\* _explain_decorators
ExplainDecorators(ml_context) ==
    LET IsDecorator(p) == Contains(Lower(p.description), Kw_decorator)
        decorator_patterns ==
            IF HasPatterns(ml_context) THEN SelectSeq(ml_context.patterns, IsDecorator)
            ELSE <<>>
    IN <<DecoratorsText>> \o
       (IF decorator_patterns # <<>>
        THEN <<"**From Your Codebase:** Found ", Str(Len(decorator_patterns)),
               " decorator-related patterns in your code!">>
        ELSE <<>>)

\* _explain_patterns
ExplainPatterns(ml_context) ==
    LET IsDesign(p) == p.type = "design_pattern"
        design_patterns ==
            IF HasPatterns(ml_context) THEN SelectSeq(ml_context.patterns, IsDesign)
            ELSE <<>>
    IN <<PatternsText>> \o
       (IF design_patterns # <<>>
        THEN <<"**In Your Code:** Detected patterns: ">> \o
             [i \in 1..Len(design_patterns) |-> design_patterns[i].pattern]
        ELSE <<>>)

\* _explain_exceptions, _explain_comprehensions, _explain_classes
ExplainExceptions(ml_context) == <<ExceptionsText>>
ExplainComprehensions(ml_context) == <<ComprehensionsText>>
ExplainClasses(ml_context) == <<ClassesText>>

\* _format_analysis_response
FormatAnalysisResponse(analysis) ==
    IF ~analysis.syntax_valid
    THEN <<"**Code Analysis Results**", "**Syntax Error:** ", analysis.error>>
    ELSE <<"**Code Analysis Results**", "**Syntax:** Valid",
           "**Complexity:** ", Str(analysis.complexity)>>
         \o (IF analysis.functions # <<>>
             THEN <<"**Functions:** ">> \o analysis.functions ELSE <<>>)
         \o (IF analysis.classes # <<>>
             THEN <<"**Classes:** ">> \o analysis.classes ELSE <<>>)
         \o (IF analysis.imports # <<>>
             THEN <<"**Imports:** ">> \o analysis.imports ELSE <<>>)
         \o (IF analysis.complexity > 10 THEN <<"**Suggestions:**">> ELSE <<>>)

\* _general_fallback
GeneralFallback(message, ml_context) ==
    <<GeneralText>>
    \o (IF HasPatterns(ml_context)
        THEN <<"I found ", Str(Len(ml_context.patterns)), " patterns in your codebase.">>
        ELSE <<>>)
    \o (IF ml_context.keys # {} /\ "available_docs" \in ml_context.keys
           /\ ml_context.available_docs
        THEN <<"I have access to Python documentation for better answers.">>
        ELSE <<>>)
    \o <<InstallText>>

\* A chain that looks for the exception words before the decorator words
FallbackResponseExceptionsFirst(message, ml_context) ==
    LET message_lower == Lower(message) IN
    IF AnyIn(ExceptionWords, message_lower) THEN ExplainExceptions(ml_context)
    ELSE IF AnyIn(DecoratorWords, message_lower) THEN ExplainDecorators(ml_context)
    ELSE IF AnyIn(PatternWords, message_lower) THEN ExplainPatterns(ml_context)
    ELSE IF AnyIn(ComprehensionWords, message_lower) THEN ExplainComprehensions(ml_context)
    ELSE IF AnyIn(ClassWords, message_lower) THEN ExplainClasses(ml_context)
    ELSE IF Contains(message_lower, Kw_analyze) \/ Contains(message_lower, Kw_code)
         THEN (IF HasAnalysis(ml_context)
               THEN FormatAnalysisResponse(ml_context.analysis)
               ELSE <<AnalyzeText>>)
    ELSE GeneralFallback(message, ml_context)

\* _fallback_response
FallbackResponse(message, ml_context) ==
    LET message_lower == Lower(message) IN
    IF AnyIn(DecoratorWords, message_lower) THEN ExplainDecorators(ml_context)
    ELSE IF AnyIn(PatternWords, message_lower) THEN ExplainPatterns(ml_context)
    ELSE IF AnyIn(ExceptionWords, message_lower) THEN ExplainExceptions(ml_context)
    ELSE IF AnyIn(ComprehensionWords, message_lower) THEN ExplainComprehensions(ml_context)
    ELSE IF AnyIn(ClassWords, message_lower) THEN ExplainClasses(ml_context)
    ELSE IF Contains(message_lower, Kw_analyze) \/ Contains(message_lower, Kw_code)
         THEN (IF HasAnalysis(ml_context)
               THEN FormatAnalysisResponse(ml_context.analysis)
               ELSE <<AnalyzeText>>)
    ELSE GeneralFallback(message, ml_context)

\* The pieces of the prompt analyze_and_chat builds around the code and the
\* question
PromptHead ==
    <<"H", "e", "r", "e", "'", "s", " ", "s", "o", "m", "e", " ", "P", "y",
      "t", "h", "o", "n", " ", "c", "o", "d", "e", " ", "I", "'", "m", " ",
      "w", "o", "r", "k", "i", "n", "g", " ", "o", "n", ":", "\n", "\n",
      "(backtick)", "(backtick)", "(backtick)", "p", "y", "t", "h", "o", "n",
      "\n">>

PromptMiddle ==
    <<"\n", "(backtick)", "(backtick)", "(backtick)", "\n", "\n">>

PromptTail ==
    <<"\n", "\n", "P", "l", "e", "a", "s", "e", " ", "p", "r", "o", "v", "i",
      "d", "e", " ", "s", "p", "e", "c", "i", "f", "i", "c", ",", " ", "a",
      "c", "t", "i", "o", "n", "a", "b", "l", "e", " ", "f", "e", "e", "d",
      "b", "a", "c", "k", " ", "f", "o", "c", "u", "s", "i", "n", "g", " ",
      "o", "n", ":", "\n", "1", ".", " ", "C", "o", "d", "e", " ", "q", "u",
      "a", "l", "i", "t", "y", " ", "a", "n", "d", " ", "b", "e", "s", "t",
      " ", "p", "r", "a", "c", "t", "i", "c", "e", "s", "\n", "2", ".", " ",
      "P", "o", "t", "e", "n", "t", "i", "a", "l", " ", "i", "m", "p", "r",
      "o", "v", "e", "m", "e", "n", "t", "s", " ", "o", "r", " ", "r", "e",
      "f", "a", "c", "t", "o", "r", "i", "n", "g", " ", "o", "p", "p", "o",
      "r", "t", "u", "n", "i", "t", "i", "e", "s", " ", " ", "\n", "3", ".",
      " ", "D", "e", "s", "i", "g", "n", " ", "p", "a", "t", "t", "e", "r",
      "n", "s", " ", "t", "h", "a", "t", " ", "c", "o", "u", "l", "d", " ",
      "b", "e", " ", "a", "p", "p", "l", "i", "c", "a", "b", "l", "e", "\n",
      "4", ".", " ", "A", "n", "y", " ", "c", "o", "d", "e", " ", "s", "m",
      "e", "l", "l", "s", " ", "o", "r", " ", "i", "s", "s", "u", "e", "s",
      " ", "y", "o", "u", " ", "n", "o", "t", "i", "c", "e", "\n">>

DefaultQuestion ==
    <<"P", "l", "e", "a", "s", "e", " ", "a", "n", "a", "l", "y", "z", "e",
      " ", "t", "h", "i", "s", " ", "c", "o", "d", "e", " ", "a", "n", "d",
      " ", "p", "r", "o", "v", "i", "d", "e", " ", "s", "u", "g", "g", "e",
      "s", "t", "i", "o", "n", "s", " ", "f", "o", "r", " ", "i", "m", "p",
      "r", "o", "v", "e", "m", "e", "n", "t", ".">>

\* A prompt that ends after the question, without the list of points to focus on
AnalysisPromptWithoutFocus(code, question) ==
    LET base_question == IF question = <<>> THEN DefaultQuestion ELSE question
    IN PromptHead \o code \o PromptMiddle \o base_question

\* question or "Please analyze this code ..."; the f-string of analyze_and_chat
AnalysisPrompt(code, question) ==
    LET base_question == IF question = <<>> THEN DefaultQuestion ELSE question
    IN PromptHead \o code \o PromptMiddle \o base_question \o PromptTail

-----------------------------------------------------------------------------
(* The local AI interface: the backend and the conversation *)

\* MaxExchanges: the exchanges appended to the history before it is cleared.
\* MaxUnusual: how many of the entries appended may be an analysis prompt or
\* the apology text. MaxWords: the words of a message asked offline.
MaxExchanges == 11
MaxUnusual == 1
MaxWords == 2

\* if len(self.conversation_history) > 20: keep the last 20
HistoryLimit == 20

Models == {"codellama:7b", "codellama:7b-python"}

\* What the POST of generate_response meets: a transport failure, or a reply
\* with a status and a body; the body is no JSON, a JSON array, or a JSON
\* object whose "message" is absent, null or an object, whose "content" in
\* turn is absent, null or a string
Http(transport, status, json, message, content, text) ==
    [transport |-> transport, status |-> status, json |-> json,
     message |-> message, content |-> content, text |-> text]

NoHttp == Http("none", 0, "none", "none", "none", <<>>)

HttpOutcomes ==
    {Http("refused", 0, "none", "none", "none", <<>>),
     Http("ok", 500, "invalid", "none", "none", <<>>),
     Http("ok", 200, "invalid", "none", "none", <<>>),
     Http("ok", 200, "array", "none", "none", <<>>),
     Http("ok", 200, "object", "absent", "none", <<>>),
     Http("ok", 200, "object", "null", "none", <<>>),
     Http("ok", 200, "object", "object", "absent", <<>>),
     Http("ok", 200, "object", "object", "null", <<>>),
     Http("ok", 200, "object", "object", "string", <<"ok">>)}

\* What generate_response returns: None, or a text
NoResponse == [none |-> TRUE, text |-> <<>>]
Response(text) == [none |-> FALSE, text |-> text]

ApologyText == "Sorry, I couldn't generate a response."

\* A generate_response whose lookup of the content has no default
GenerateResponseNoDefault(http) ==
    IF http.transport # "ok" THEN NoResponse
    ELSE IF http.status >= 400 THEN NoResponse
    ELSE IF http.json # "object" THEN NoResponse
    ELSE IF http.message = "absent" THEN NoResponse
    ELSE IF http.message # "object" THEN NoResponse
    ELSE IF http.content = "absent" THEN NoResponse
    ELSE IF http.content = "null" THEN NoResponse
    ELSE Response(http.text)

\* OllamaBackend.generate_response: requests.post raises on a transport
\* failure, raise_for_status on a 4xx or 5xx status, response.json() on a body
\* that is no JSON, and .get on a value that is no object; each is caught and
\* None returned. result.get("message", {}).get("content", "Sorry, ...")
\* gives the apology for an absent key and None for a null content.
GenerateResponse(http) ==
    IF http.transport # "ok" THEN NoResponse
    ELSE IF http.status >= 400 THEN NoResponse
    ELSE IF http.json # "object" THEN NoResponse
    ELSE IF http.message = "absent" THEN Response(<<ApologyText>>)
    ELSE IF http.message # "object" THEN NoResponse
    ELSE IF http.content = "absent" THEN Response(<<ApologyText>>)
    ELSE IF http.content = "null" THEN NoResponse
    ELSE Response(http.text)

Entry(role, content) == [role |-> role, content |-> content]

\* A trim that keeps the first entries
TrimFirst(history) ==
    IF Len(history) > HistoryLimit
    THEN SubSeq(history, 1, HistoryLimit)
    ELSE history

\* if len(history) > 20: history = history[-20:]
Trim(history) ==
    IF Len(history) > HistoryLimit
    THEN SubSeq(history, Len(history) - HistoryLimit + 1, Len(history))
    ELSE history

Call(op, message, ml_context, available, http, returned) ==
    [op |-> op, message |-> message, ml_context |-> ml_context,
     available |-> available, http |-> http, returned |-> returned]

NoCall == Call("none", <<>>, NoContext, FALSE, NoHttp, TRUE)

\* The entries of `entries` that are an analysis prompt or the apology
Unusual(entries) ==
    Cardinality({i \in 1..Len(entries) :
                    \/ entries[i].content = <<ApologyText>>
                    \/ Len(entries[i].content) > Len(PromptHead)})

\* The two entries an exchange appends
Exchange(user_message, response) ==
    <<Entry("user", user_message), Entry("assistant", response.text)>>

\* LocalAIInterface.chat: `available` is what is_available() finds, `http`
\* what the POST meets. The message sent to the backend is enhanced with the
\* context; the history gets the message as it was given.
Chat(user_message, ml_context, available, http) ==
    LET response == GenerateResponse(http) IN
    /\ IF ~available \/ response.none
       THEN /\ reply' = FallbackResponse(user_message, ml_context)
            /\ UNCHANGED <<conversation_history, appended>>
       ELSE /\ conversation_history' =
                  Trim(conversation_history \o Exchange(user_message, response))
            /\ appended' = appended \o Exchange(user_message, response)
            /\ reply' = response.text
    /\ UNCHANGED model

\* A word with a capital letter
Word_Decorator ==
    <<"D", "e", "c", "o", "r", "a", "t", "o", "r">>

\* The words of the messages asked offline: keywords, and words that hold a
\* keyword inside ('country' holds 'try', 'loop' holds 'oop')
Vocabulary ==
    {Word_Decorator,
     <<"d", "e", "c", "o", "r", "a", "t", "o", "r", "s">>,
     <<"s", "i", "n", "g", "l", "e", "t", "o", "n">>,
     <<"d", "e", "s", "i", "g", "n">>,
     <<"p", "a", "t", "t", "e", "r", "n">>,
     <<"e", "r", "r", "o", "r">>,
     <<"c", "o", "u", "n", "t", "r", "y">>,
     <<"c", "o", "m", "p", "r", "e", "h", "e", "n", "s", "i", "o", "n">>,
     <<"c", "l", "a", "s", "s">>,
     <<"l", "o", "o", "p">>,
     <<"c", "o", "d", "e">>,
     <<"a", "n", "a", "l", "y", "z", "e">>,
     <<"h", "e", "l", "l", "o">>}


\* The sequences of 1..n words
RECURSIVE WordSeqs(_)
WordSeqs(n) ==
    IF n = 0 THEN {}
    ELSE {<<w>> : w \in Vocabulary}
         \cup WordSeqs(n - 1)
         \cup {Append(ws, w) : ws \in WordSeqs(n - 1), w \in Vocabulary}

\* The messages asked while no backend is reachable
OfflineMessages == {Join(ws) : ws \in WordSeqs(MaxWords)}

\* The messages of a conversation; the code and the questions (none, or one)
\* given to analyze_and_chat
ChatMessages == {<<"h", "i">>}
Codes == {<<"x">>}
Questions == {<<>>, <<"w", "h", "y">>}

\* The code and the questions chat_about_code hands to analyze_and_chat while
\* no backend is reachable: also a code that names a Decorator class and a
\* question about decorators
OfflineCodes == Codes \cup {Word_Decorator}
OfflineQuestions == Questions \cup {Kw_decorators}

ChatInit ==
    /\ conversation_history = <<>>
    /\ model \in Models
    /\ asked = NoCall
    /\ reply = <<>>
    /\ appended = <<>>

\* The agent while only the AI interface is used
AgentIdle ==
    /\ tasks = <<>>
    /\ execution_log = <<>>
    /\ agent_memory = {}
    /\ is_running = FALSE
    /\ disk = [kind |-> "absent"]
    /\ now = 0
    /\ pc = "prompt"
    /\ cur = NoId
    /\ loop = NoLoop

\* The AI interface while only the agent is used
ChatIdle ==
    /\ conversation_history = <<>>
    /\ model = "codellama:7b"
    /\ asked = NoCall
    /\ reply = <<>>
    /\ appended = <<>>

\* What a call may meet: no backend, or a backend and one outcome of the POST
Meets == {<<FALSE, NoHttp>>} \cup {<<TRUE, http>> : http \in HttpOutcomes}

\* chat is entered with `user_message` and is about to meet `met`; a call that
\* will append to the history is made while the bounds of the model allow it
Enter(op, user_message, ml_context, met) ==
    /\ asked.returned
    /\ (met[1] /\ ~GenerateResponse(met[2]).none) =>
          LET new == Exchange(user_message, GenerateResponse(met[2])) IN
          /\ Len(appended) + Len(new) <= 2 * MaxExchanges
          /\ Unusual(appended \o new) <= MaxUnusual
    /\ asked' = Call(op, user_message, ml_context, met[1], met[2], FALSE)
    /\ reply' = <<>>
    /\ UNCHANGED <<conversation_history, model, appended>>

\* chat(user_message) is called
ChatCall ==
    /\ \E user_message \in ChatMessages, met \in Meets :
          Enter("chat", user_message, NoContext, met)
    /\ UNCHANGED <<agentVars, toolVars>>

\* analyze_and_chat(code) is called: chat(analysis_prompt)
AnalyzeAndChat ==
    /\ \E code \in Codes, met \in Meets :
          Enter("analyze_and_chat", AnalysisPrompt(code, <<>>), NoContext, met)
    /\ UNCHANGED <<agentVars, toolVars>>

\* The call of chat runs and returns
ChatReturns ==
    /\ ~asked.returned
    /\ Chat(asked.message, asked.ml_context, asked.available, asked.http)
    /\ asked' = [asked EXCEPT !.returned = TRUE]
    /\ UNCHANGED <<agentVars, toolVars>>

\* clear_history()
ClearHistory ==
    /\ asked.returned
    /\ conversation_history' = <<>>
    /\ appended' = <<>>
    /\ asked' = Call("clear_history", <<>>, NoContext, FALSE, NoHttp, TRUE)
    /\ reply' = <<>>
    /\ UNCHANGED model
    /\ UNCHANGED <<agentVars, toolVars>>

\* switch_model(model_name): the backend is an OllamaBackend
SwitchModel ==
    /\ asked.returned
    /\ \E model_name \in Models : model' = model_name
    /\ asked' = Call("switch_model", <<>>, NoContext, FALSE, NoHttp, TRUE)
    /\ reply' = <<"True">>
    /\ UNCHANGED <<conversation_history, appended>>
    /\ UNCHANGED <<agentVars, toolVars>>

ChatNext ==
    \/ ChatCall
    \/ AnalyzeAndChat
    \/ ChatReturns
    \/ ClearHistory
    \/ SwitchModel

\* chat(message, ml_context) or analyze_and_chat(code, question) has been
\* called and finds no backend. chat_about_code(code, question) returns what
\* analyze_and_chat(code, question) returns, and analyze_and_chat calls
\* chat(analysis_prompt) with no context.
OfflineInit ==
    /\ conversation_history = <<>>
    /\ model = "codellama:7b"
    /\ \/ \E user_message \in OfflineMessages, ml_context \in Contexts :
             asked = Call("chat", user_message, ml_context, FALSE, NoHttp, FALSE)
       \/ \E code \in OfflineCodes, question \in OfflineQuestions :
             asked = Call("analyze_and_chat", AnalysisPrompt(code, question),
                          NoContext, FALSE, NoHttp, FALSE)
    /\ reply = <<>>
    /\ appended = <<>>

OfflineNext == ChatReturns

-----------------------------------------------------------------------------
(* The pattern store (core/pattern_discovery.py) *)

\* How many patterns one discovery is followed up to
MaxFound == 2

\* The dicts the detectors build: a design pattern, a common AST sequence seen
\* in count samples, a long method of loc statements (loc as str(loc))
FoundPattern(type, pattern, frequency, description) ==
    [type |-> type, pattern |-> pattern, frequency |-> frequency,
     description |-> description]
Singleton ==
    FoundPattern("design_pattern", "Singleton", 1, <<"Singleton design pattern detected">>)
NodeSequence(count) ==
    FoundPattern("ast_sequence", "Module -> FunctionDef -> Return", count,
                 <<"Common AST node sequence: Module -> FunctionDef -> Return">>)
LongMethod(loc) ==
    FoundPattern("code_smell", "long_method_f", 1,
                 <<"Long method f with ", loc, " statements (consider breaking down)">>)
Found == {Singleton, NodeSequence(3), NodeSequence(4), LongMethod("21")}

\* The lists of patterns the detectors may return for some code samples
RECURSIVE FoundLists(_)
FoundLists(n) ==
    IF n = 0 THEN {<<>>}
    ELSE FoundLists(n - 1) \cup
         {Append(patterns, pattern) : patterns \in FoundLists(n - 1), pattern \in Found}

\* hashlib.md5(pattern['pattern'].encode()).hexdigest()[:10]
PatternId(pattern) ==
    CASE pattern = "Singleton" -> "6ff5f73c8b"
      [] pattern = "Module -> FunctionDef -> Return" -> "452e7e22d0"
      [] pattern = "long_method_f" -> "bf203a98bf"

\* A mutation of the update: the store holds the patterns of this run only
StorePatternsOfThisRun(store, patterns) ==
    [pattern_id \in {PatternId(patterns[i].pattern) : i \in 1..Len(patterns)} |->
        LET last == CHOOSE i \in 1..Len(patterns) :
                        /\ PatternId(patterns[i].pattern) = pattern_id
                        /\ \A j \in (i + 1)..Len(patterns) :
                               PatternId(patterns[j].pattern) # pattern_id
        IN  patterns[last]]

\* for pattern in patterns: self.discovered_patterns[pattern_id] = pattern
RECURSIVE StorePatterns(_, _)
StorePatterns(store, patterns) ==
    IF patterns = <<>> THEN store
    ELSE LET pattern_id == PatternId(Head(patterns).pattern)
         IN  StorePatterns(
                 [id \in DOMAIN store \cup {pattern_id} |->
                     IF id = pattern_id THEN Head(patterns) ELSE store[id]],
                 Tail(patterns))

\* The dict without entries
NoPatterns == [id \in {} |-> Singleton]

\* discovered_patterns.json: absent, not JSON, or the saved dict
PatternsFile(kind, patterns) == [kind |-> kind, patterns |-> patterns]

\* _load_patterns()
LoadPatterns(file) == IF file.kind = "json" THEN file.patterns ELSE NoPatterns

Discovery(op, samples, patterns, saved) ==
    [op |-> op, samples |-> samples, patterns |-> patterns, saved |-> saved]

\* discover_patterns(code_samples): the detectors find the list patterns in
\* samples code samples, and _save_patterns() succeeds or raises
Discover(samples, patterns, saved) ==
    IF samples = 0
    THEN /\ discovery' = Discovery("discover_patterns", 0, <<>>, FALSE)
         /\ UNCHANGED <<discovered_patterns, patterns_file>>
    ELSE /\ discovered_patterns' = StorePatterns(discovered_patterns, patterns)
         /\ patterns_file' =
                IF saved THEN PatternsFile("json", discovered_patterns')
                ELSE patterns_file
         /\ discovery' = Discovery("discover_patterns", samples, patterns, saved)

DiscoverPatterns ==
    /\ \E samples \in 0..1, patterns \in FoundLists(MaxFound), saved \in BOOLEAN :
          Discover(samples, patterns, saved)
    /\ UNCHANGED exceptStore

\* PatternDiscovery(data_dir) of a later run
ConstructPatternDiscovery ==
    /\ discovered_patterns' = LoadPatterns(patterns_file)
    /\ discovery' = Discovery("__init__", 0, <<>>, FALSE)
    /\ UNCHANGED patterns_file
    /\ UNCHANGED exceptStore

\* The store after construction, over the file an earlier run may have left
StoreInit ==
    /\ patterns_file \in
           {PatternsFile("absent", NoPatterns), PatternsFile("corrupt", NoPatterns),
            PatternsFile("json", StorePatterns(NoPatterns, <<Singleton, NodeSequence(3)>>))}
    /\ discovered_patterns = LoadPatterns(patterns_file)
    /\ discovery = Discovery("__init__", 0, <<>>, FALSE)

\* The store while it is not used
StoreIdle ==
    /\ patterns_file = PatternsFile("absent", NoPatterns)
    /\ discovered_patterns = NoPatterns
    /\ discovery = Discovery("__init__", 0, <<>>, FALSE)

StoreNext ==
    \/ DiscoverPatterns
    \/ ConstructPatternDiscovery

-----------------------------------------------------------------------------
(* The detector of common AST sequences (core/pattern_discovery.py) *)

\* How many code samples a batch has at most
MaxSamples == 3

\* The code samples of the model; the last one does not parse
SampleCodes == {"x = 1", "x", "pass", "pass (5 times)", "def f(:"}

\* ast.parse(code), then _extract_node_sequence(tree): the node kinds in the
\* order of ast.walk, breadth first
ExtractNodeSequence(code) ==
    CASE code = "x = 1" -> <<"Module", "Assign", "Name", "Constant", "Store">>
      [] code = "x" -> <<"Module", "Expr", "Name", "Load">>
      [] code = "pass" -> <<"Module", "Pass">>
      [] code = "pass (5 times)" -> <<"Module", "Pass", "Pass", "Pass", "Pass", "Pass">>
      [] code = "def f(:" -> <<"SyntaxError">>

\* The batches of code samples
RECURSIVE SampleBatches(_)
SampleBatches(n) ==
    IF n = 0 THEN {<<>>}
    ELSE SampleBatches(n - 1) \cup
         {Append(batch, code) : batch \in SampleBatches(n - 1), code \in SampleCodes}

\* node_sequences: the sequences of the samples that parse, when longer than 2
NodeSequences(code_samples) ==
    LET sequences == [k \in 1..Len(code_samples) |-> ExtractNodeSequence(code_samples[k])]
    IN  SelectSeq(sequences, LAMBDA sequence : sequence # <<"SyntaxError">> /\ Len(sequence) > 2)

\* The slices sequence[i:j] with j - i >= min_length, as (start, end) pairs
Slices(sequence, min_length) ==
    {ij \in (1..Len(sequence)) \X (1..Len(sequence)) : ij[2] - ij[1] + 1 >= min_length}

\* _find_common_subsequences: subsequence_counts[subseq] += 1 for every slice
\* of every sequence
RECURSIVE SubsequenceCount(_, _, _)
SubsequenceCount(sequences, subseq, min_length) ==
    IF sequences = <<>> THEN 0
    ELSE Cardinality({ij \in Slices(Head(sequences), min_length) :
                         SubSeq(Head(sequences), ij[1], ij[2]) = subseq})
         + SubsequenceCount(Tail(sequences), subseq, min_length)

\* The keys of subsequence_counts
CountedSubsequences(sequences, min_length) ==
    UNION {{SubSeq(sequences[k], ij[1], ij[2]) : ij \in Slices(sequences[k], min_length)} :
              k \in 1..Len(sequences)}

\* ' -> '.join(sequence)
RECURSIVE JoinArrow(_)
JoinArrow(sequence) ==
    IF Len(sequence) <= 1 THEN sequence
    ELSE <<Head(sequence), " -> ">> \o JoinArrow(Tail(sequence))

\* _discover_ast_patterns(code_samples): the patterns it returns
DiscoverAstPatternsOf(code_samples) ==
    LET sequences == NodeSequences(code_samples) IN
    {FoundPattern("ast_sequence", JoinArrow(subseq), SubsequenceCount(sequences, subseq, 3),
                  <<"Common AST node sequence: ">> \o JoinArrow(subseq)) :
        subseq \in {c \in CountedSubsequences(sequences, 3) :
                       SubsequenceCount(sequences, c, 3) > 2}}

\* _discover_ast_patterns is called with the batch at hand
DiscoverAstPatterns ==
    /\ discovery.op = "code_samples"
    /\ discovery' = Discovery("_discover_ast_patterns", discovery.samples,
                              DiscoverAstPatternsOf(discovery.samples), FALSE)
    /\ UNCHANGED <<discovered_patterns, patterns_file>>
    /\ UNCHANGED exceptStore

-----------------------------------------------------------------------------
(* The documentation processor (core/document_processor.py) *)

\* The paths ingestion is called with: two directories of documents, one
\* document of the first, a path that does not exist, a directory without read
\* permission, and a directory whose only document cannot be opened
DocPaths == {"docs_a", "docs_b", "docs_a/api.md", "missing", "locked", "drafts"}

\* is_file() on the path, and the *.rst, *.md, *.txt files rglob yields below it
DocFilesUnder(docs_path) ==
    CASE docs_path = "docs_a" -> <<"docs_a/intro.rst", "docs_a/api.md">>
      [] docs_path = "docs_b" -> <<"docs_b/guide.txt">>
      [] docs_path = "docs_a/api.md" -> <<"docs_a/api.md">>
      [] docs_path = "drafts" -> <<"drafts/todo.rst">>
      [] OTHER -> <<>>

\* hashlib.md5(str(file_path).encode()).hexdigest()[:10]
DocId(file_path) ==
    CASE file_path = "docs_a/intro.rst" -> "c2d5cf85dc"
      [] file_path = "docs_a/api.md" -> "d22e130edb"
      [] file_path = "docs_b/guide.txt" -> "2291f7cf41"

\* _process_doc_file(file_path): the dict of the document, of which the model
\* keeps id, path and filename
ProcessDocFile(file_path) ==
    [id |-> DocId(file_path), path |-> file_path,
     filename |-> CASE file_path = "docs_a/intro.rst" -> "intro.rst"
                    [] file_path = "docs_a/api.md" -> "api.md"
                    [] file_path = "docs_b/guide.txt" -> "guide.txt"]

\* The documents processed for a path, those that gave None left out
ProcessedDocs(docs_path) ==
    LET files == SelectSeq(DocFilesUnder(docs_path),
                           LAMBDA file_path : file_path # "drafts/todo.rst")
    IN  [i \in 1..Len(files) |-> ProcessDocFile(files[i])]

\* A dict keyed by document id, without entries
NoDocs == [doc_id \in {} |-> ""]

\* SimpleVectorizer._tokenize(text): the words of a text, in lower case,
\* without the stop words and the words of one or two letters. The texts are
\* the combined text of each document (written as its path), the function
\* names searched for, and free queries.
Tokenize(text) ==
    CASE text = "docs_a/intro.rst" -> {"print", "function", "value"}
      [] text = "docs_a/api.md" -> {"open", "file", "len"}
      [] text = "docs_b/guide.txt" -> {"print", "guide"}
      [] text = "print" -> {"print"}
      [] text = "len" -> {"len"}
      [] text = "how to open a file" -> {"how", "open", "file"}
      [] OTHER -> {}

\* A vectorize that takes every word for a word of the vocabulary
VectorizeEveryWord(words, text) == Tokenize(text)

\* SimpleVectorizer.vectorize(document) over the vocabulary `words`: the keys
\* of the vector, the words of the document that are in the vocabulary
Vectorize(words, text) == {word \in Tokenize(text) : word \in words}

\* _cosine_similarity(vec1, vec2): 0.0 without a common key; with one, the
\* cosine of the weights, written 1
CosineSimilarity(vec1, vec2) == IF vec1 \cap vec2 = {} THEN 0 ELSE 1

\* _create_doc_index(docs), on the embedding map
RECURSIVE CreateEmbeddings(_, _)
CreateEmbeddings(embeddings, docs) ==
    IF docs = <<>> THEN embeddings
    ELSE CreateEmbeddings(
             [doc_id \in DOMAIN embeddings \cup {Head(docs).id} |->
                 IF doc_id = Head(docs).id THEN Vectorize(vocabulary, Head(docs).path)
                 ELSE embeddings[doc_id]],
             Tail(docs))

\* _create_doc_index(docs), on the lookup index
RECURSIVE CreateIndex(_, _)
CreateIndex(index, docs) ==
    IF docs = <<>> THEN index
    ELSE CreateIndex(
             [doc_id \in DOMAIN index \cup {Head(docs).id} |->
                 IF doc_id = Head(docs).id THEN Head(docs).filename ELSE index[doc_id]],
             Tail(docs))

\* The three artifacts of docs_dir: processed_docs.json.gz, embeddings.pkl.gz
\* and index.json
Artifacts(kind, docs, embeddings, index) ==
    [kind |-> kind, processed_docs |-> docs, embeddings |-> embeddings, index |-> index]
NoArtifacts == Artifacts("absent", <<>>, NoDocs, NoDocs)

Ingestion(op, docs_path, returned) ==
    [op |-> op, docs_path |-> docs_path, returned |-> returned]

\* A mutation of ingest_documentation: an empty batch is indexed and saved too
IngestEmptyBatchToo(docs_path, saved) ==
    /\ doc_embeddings' = CreateEmbeddings(doc_embeddings, ProcessedDocs(docs_path))
    /\ doc_index' = CreateIndex(doc_index, ProcessedDocs(docs_path))
    /\ docs_dir' = Artifacts("saved", ProcessedDocs(docs_path), doc_embeddings', doc_index')
    /\ ingested' = Ingestion("ingest_documentation", docs_path, Len(ProcessedDocs(docs_path)))
    /\ UNCHANGED vocabulary

\* ingest_documentation(docs_path); _save_processed_docs succeeds or raises
\* before it has written
IngestDocumentation(docs_path, saved) ==
    IF docs_path = "missing" \/ docs_path = "locked" \/ ProcessedDocs(docs_path) = <<>>
    THEN /\ ingested' = Ingestion("ingest_documentation", docs_path, 0)
         /\ UNCHANGED <<vocabulary, doc_embeddings, doc_index, docs_dir>>
    ELSE /\ doc_embeddings' = CreateEmbeddings(doc_embeddings, ProcessedDocs(docs_path))
         /\ UNCHANGED vocabulary
         /\ doc_index' = CreateIndex(doc_index, ProcessedDocs(docs_path))
         /\ IF saved
            THEN /\ docs_dir' = Artifacts("saved", ProcessedDocs(docs_path),
                                          doc_embeddings', doc_index')
                 /\ ingested' = Ingestion("ingest_documentation", docs_path,
                                          Len(ProcessedDocs(docs_path)))
            ELSE /\ UNCHANGED docs_dir
                 /\ ingested' = Ingestion("ingest_documentation", docs_path, 0)

IngestDocs ==
    /\ \E docs_path \in DocPaths, saved \in BOOLEAN :
          IngestDocumentation(docs_path, saved)
    /\ UNCHANGED exceptDocs

\* DocumentProcessor(data_dir) and load_processed_docs() of a later run
ConstructDocumentProcessor ==
    /\ vocabulary' = {}
    /\ doc_embeddings' = IF docs_dir.kind = "saved" THEN docs_dir.embeddings ELSE NoDocs
    /\ doc_index' = IF docs_dir.kind = "saved" THEN docs_dir.index ELSE NoDocs
    /\ ingested' = Ingestion("__init__", "", 0)
    /\ UNCHANGED docs_dir
    /\ UNCHANGED exceptDocs

\* The code analyze_with_ml is called with, and the queries of a search
AnalyzedCodes == {"print(x)", "x = 1", "def f(:"}
Queries == {"print", "len", "how to open a file", ""}

\* The names of the functions called in code that parses: ast.Call nodes
\* whose func is a Name
CalledNames(code) == IF code = "print(x)" THEN {"print"} ELSE {}

\* semantic_search(query, top_k): the result lists it may return, each as the
\* set of its results. The top_k most similar documents are taken; among
\* equally similar ones the order of the embedding map decides, which the
\* model leaves open.
SemanticSearchResults(query, top_k) ==
    LET query_embedding == Vectorize(vocabulary, query)
        similarities ==
            {[doc_id |-> doc_id,
              similarity |-> CosineSimilarity(query_embedding, doc_embeddings[doc_id])] :
                doc_id \in DOMAIN doc_embeddings}
        taken == IF Cardinality(similarities) < top_k THEN Cardinality(similarities)
                 ELSE top_k
    IN  {{[doc_id |-> s.doc_id, filename |-> doc_index[s.doc_id], similarity |-> s.similarity] :
             s \in {t \in top : t.doc_id \in DOMAIN doc_index}} :
           top \in {some \in SUBSET similarities :
                       /\ Cardinality(some) = taken
                       /\ \A t \in some, u \in similarities \ some :
                              u.similarity <= t.similarity}}

\* semantic_search(query), top_k = 5
SemanticSearch ==
    /\ \E query \in Queries :
          \E results \in SemanticSearchResults(query, 5) :
             ingested' = Ingestion("semantic_search", query, results)
    /\ UNCHANGED <<vocabulary, doc_embeddings, doc_index, docs_dir>>
    /\ UNCHANGED exceptDocs

\* _get_doc_suggestions(code) for a name: the results of similarity above 0.3
DocSuggestions(func_name, results) ==
    {[function |-> func_name, doc_file |-> result.filename, relevance |-> result.similarity] :
        result \in {r \in results : 10 * r.similarity > 3}}

\* analyze_with_ml(code) of the mentor, for its doc_suggestions: code with at
\* most one called name
AnalyzeWithMl ==
    /\ \E code \in AnalyzedCodes :
          IF CalledNames(code) = {}
          THEN ingested' = Ingestion("analyze_with_ml", code, {})
          ELSE \E func_name \in CalledNames(code) :
                  \E results \in SemanticSearchResults(func_name, 2) :
                     ingested' = Ingestion("analyze_with_ml", code,
                                           DocSuggestions(func_name, results))
    /\ UNCHANGED <<vocabulary, doc_embeddings, doc_index, docs_dir>>
    /\ UNCHANGED exceptDocs

\* The processor of a first run
DocsInit ==
    /\ vocabulary = {}
    /\ doc_embeddings = NoDocs
    /\ doc_index = NoDocs
    /\ docs_dir = NoArtifacts
    /\ ingested = Ingestion("__init__", "", 0)

DocsNext ==
    \/ IngestDocs
    \/ ConstructDocumentProcessor
    \/ SemanticSearch
    \/ AnalyzeWithMl

-----------------------------------------------------------------------------
(* The refactor task and the files it rewrites (core/autonomous_agent.py) *)

\* How far the clock of a refactoring is followed, in seconds
MaxRefactorClock == 1

\* The file_targets of refactor tasks
Targets == {"a.py", "b.py"}

\* A file as stored: its lines and the line ending that closes each of them
StoredFile(lines, ending) == [lines |-> lines, ending |-> ending]
AbsentFile == StoredFile(<<>>, "absent")

\* The target itself, and full_path.with_suffix(f'.py.backup.{int(time.time())}')
TargetPath(file_path) == <<file_path, NoneTime>>
BackupPath(file_path, time) == <<file_path, time>>

\* open(path, 'r').read(): universal newlines, every line ending read as "\n"
ReadText(file) == file.lines

\* open(path, 'w').write(text): each "\n" written as the line ending of the
\* platform, "\n"
WriteText(text) == StoredFile(text, "\n")

\* The lines a target of the model may grow to
MaxCodeLines == 5

\* A function of more than 20 lines is written with its statements on one line
LongBody == "    (21 statements)"
TodoComment == "# TODO: Consider breaking this function into smaller methods"

\* refactored_lines.insert(i - 1, line), lines counted from 1
InsertLine(lines, i, line) ==
    SubSeq(lines, 1, i - 1) \o <<line>> \o SubSeq(lines, i, Len(lines))

\* _apply_intelligent_refactoring(code, analysis). A function of more than 20
\* lines gets the TODO comment above its def line: the test for an earlier
\* "# TODO:" looks at the def line, never at the comment, so that every call
\* adds one. A function without docstring gets a TODO docstring below its def
\* line, indented four more than the line that was there; the name x becomes
\* value; code that does not parse is returned as it is.
ApplyIntelligentRefactoring(code) ==
    IF \E i \in 1..Len(code) : code[i] = LongBody
    THEN InsertLine(code, CHOOSE i \in 1..Len(code) : code[i] = "def g():", TodoComment)
    ELSE IF code = <<"def f():", "    return x">>
    THEN <<"def f():", "        (3 quotes)TODO: Add docstring for f(3 quotes)", "    return value">>
    ELSE IF code = <<"x = 1">> THEN <<"value = 1">>
    ELSE code

\* What a target may hold before the first refactoring
TargetContents ==
    {AbsentFile,
     StoredFile(<<"def f():", "    return x">>, "\n"),
     StoredFile(<<"def f():", "    return x">>, "\r\n"),
     StoredFile(<<"x = 1">>, "\n"),
     StoredFile(<<"def f(:">>, "\n"),
     StoredFile(<<"def f():", "    (3 quotes)doc(3 quotes)", "    return 1">>, "\r\n"),
     StoredFile(<<"def g():", "    (3 quotes)doc(3 quotes)", LongBody, "    return 1">>, "\n")}

\* The locals of _execute_refactor_task
Refactoring(at, file_targets, original_code, refactored_code) ==
    [at |-> at, file_targets |-> file_targets, original_code |-> original_code,
     refactored_code |-> refactored_code]
NoRefactoring == Refactoring("idle", <<>>, <<>>, <<>>)

\* for file_path in task.file_targets: the file is read and refactored in
\* memory, when it exists
ReadTarget ==
    /\ refactoring.at = "loop"
    /\ refactoring.file_targets # <<>>
    /\ LET file == project_files[TargetPath(Head(refactoring.file_targets))]
           original_code == ReadText(file)
           refactored_code == ApplyIntelligentRefactoring(original_code)
       IN  refactoring' =
               IF file = AbsentFile
               THEN Refactoring("loop", Tail(refactoring.file_targets), <<>>, <<>>)
               ELSE Refactoring(IF refactored_code # original_code THEN "backup"
                                ELSE "suggest",
                                refactoring.file_targets, original_code, refactored_code)
    /\ UNCHANGED <<project_files, refactor_clock>>
    /\ UNCHANGED exceptRefactor

\* Create backup
WriteBackup ==
    /\ refactoring.at = "backup"
    /\ project_files' =
           [project_files EXCEPT
               ![BackupPath(Head(refactoring.file_targets), refactor_clock)] =
                   WriteText(refactoring.original_code)]
    /\ refactoring' = [refactoring EXCEPT !.at = "rewrite"]
    /\ UNCHANGED refactor_clock
    /\ UNCHANGED exceptRefactor

\* Apply refactoring
WriteTarget ==
    /\ refactoring.at = "rewrite"
    /\ project_files' =
           [project_files EXCEPT
               ![TargetPath(Head(refactoring.file_targets))] =
                   WriteText(refactoring.refactored_code)]
    /\ refactoring' = [refactoring EXCEPT !.at = "suggest"]
    /\ UNCHANGED refactor_clock
    /\ UNCHANGED exceptRefactor

\* Generate additional AI suggestions, and go on with the next target
SuggestImprovements ==
    /\ refactoring.at = "suggest"
    /\ refactoring' = Refactoring("loop", Tail(refactoring.file_targets), <<>>, <<>>)
    /\ UNCHANGED <<project_files, refactor_clock>>
    /\ UNCHANGED exceptRefactor

\* open() or write() raises, or the mentor does: _execute_task fails the task
RefactorRaises ==
    /\ refactoring.at \in {"backup", "rewrite", "suggest"}
    /\ refactoring' = NoRefactoring
    /\ UNCHANGED <<project_files, refactor_clock>>
    /\ UNCHANGED exceptRefactor

\* return results
RefactorReturns ==
    /\ refactoring.at = "loop"
    /\ refactoring.file_targets = <<>>
    /\ refactoring' = NoRefactoring
    /\ UNCHANGED <<project_files, refactor_clock>>
    /\ UNCHANGED exceptRefactor

\* _execute_refactor_task(task) is entered, for a task with one or two targets
ExecuteRefactorTask ==
    /\ refactoring.at = "idle"
    /\ \A target \in Targets : Len(project_files[TargetPath(target)].lines) <= MaxCodeLines
    /\ \E first \in Targets, others \in {<<>>} \cup {<<second>> : second \in Targets} :
          refactoring' = Refactoring("loop", <<first>> \o others, <<>>, <<>>)
    /\ UNCHANGED <<project_files, refactor_clock>>
    /\ UNCHANGED exceptRefactor

\* A second passes
RefactorTick ==
    /\ refactor_clock < MaxRefactorClock
    /\ refactor_clock' = refactor_clock + 1
    /\ UNCHANGED <<project_files, refactoring>>
    /\ UNCHANGED exceptRefactor

\* The project before the first refactor task: no backup yet
RefactorInit ==
    /\ \E contents \in [Targets -> TargetContents] :
          project_files =
              [path \in Targets \X (NoneTime..MaxRefactorClock) |->
                  IF path[2] = NoneTime THEN contents[path[1]] ELSE AbsentFile]
    /\ refactoring = NoRefactoring
    /\ refactor_clock = 0

\* The project while no refactor task runs
RefactorIdle ==
    /\ project_files = [path \in Targets \X {NoneTime} |-> AbsentFile]
    /\ refactoring = NoRefactoring
    /\ refactor_clock = 0

RefactorNext ==
    \/ ExecuteRefactorTask
    \/ ReadTarget
    \/ WriteBackup
    \/ WriteTarget
    \/ SuggestImprovements
    \/ RefactorRaises
    \/ RefactorReturns
    \/ RefactorTick

-----------------------------------------------------------------------------
(* The mentor and its interaction log (core/mentor.py) *)

\* How many records the log is followed up to
MaxInteractions == 2

\* datetime.now().isoformat(): the readings of the clock
Clock == {0, 1}

\* The optional str arguments of chat_about_code; None and "" are false
Arguments == {None, "", "def f"}
Truthy(text) == text \notin {None, ""}

\* What the AI interface answers: with or without a fenced python block
Responses == {"use functools", "(fence)python def g (fence)"}

\* text.lower().split() of the texts a query is made of
Words(text) ==
    CASE text = "Code analysis: " -> {"code", "analysis:"}
      [] text = "General analysis" -> {"general", "analysis"}
      [] text = "decorators" -> {"decorators"}
      [] text = "def f" -> {"def", "f"}
      [] OTHER -> {}
QueryWords(query) == UNION {Words(query[i]) : i \in 1..Len(query)}

\* The dict add_interaction appends
Interaction(query, response, timestamp) ==
    [query |-> query, response |-> response, timestamp |-> timestamp]

\* _load_interactions(): the list in the file, [] when reading or parsing it raises
LoadInteractions(readable) == IF readable THEN interactions_file ELSE <<>>

\* A mutation of add_interaction: the new list is never written
AddInteractionUnwritten(query, response, readable, timestamp) ==
    UNCHANGED interactions_file

\* add_interaction(query, response)
AddInteraction(query, response, readable, timestamp) ==
    interactions_file' =
        Append(LoadInteractions(readable), Interaction(query, response, timestamp))

MentorCall(op, code, question, readable, returned) ==
    [op |-> op, code |-> code, question |-> question, readable |-> readable,
     returned |-> returned]
NoMentorCall == MentorCall("none", None, None, TRUE, <<>>)

\* chat_about_code(code, question)
ChatAboutCode ==
    /\ Len(interactions_file) < MaxInteractions
    /\ \E code \in Arguments, question \in Arguments, response \in Responses,
          readable \in BOOLEAN, timestamp \in Clock :
          IF Truthy(code)
          THEN /\ AddInteraction(
                      <<"Code analysis: ",
                        IF Truthy(question) THEN question ELSE "General analysis">>,
                      response, readable, timestamp)
               /\ mentor_call' =
                      MentorCall("chat_about_code", code, question, readable, <<response>>)
          ELSE IF Truthy(question)
          THEN /\ AddInteraction(<<question>>, response, readable, timestamp)
               /\ mentor_call' =
                      MentorCall("chat_about_code", code, question, readable, <<response>>)
          ELSE /\ UNCHANGED interactions_file
               /\ mentor_call' =
                      MentorCall("chat_about_code", code, question, TRUE,
                          <<"Please provide either code to analyze or a question to ask!">>)
    /\ UNCHANGED exceptMentor

\* _search_interactions(query, interactions): the interactions whose query is
\* more than 0.1 similar (words shared / words of either), at most 3 of them
SearchInteractions(query, interactions) ==
    LET Shared(interaction) == QueryWords(query) \cap QueryWords(interaction.query)
        Either(interaction) == QueryWords(query) \cup QueryWords(interaction.query)
        Similar(interaction) ==
            /\ Either(interaction) # {}
            /\ 10 * Cardinality(Shared(interaction)) > Cardinality(Either(interaction))
        results == SelectSeq(interactions, Similar)
    IN  IF Len(results) > 3 THEN 3 ELSE Len(results)

\* smart_search(query): how many previous interactions it returns
SmartSearch ==
    /\ \E query \in Arguments \ {None}, readable \in BOOLEAN :
          mentor_call' =
              MentorCall("smart_search", None, query, readable,
                         <<SearchInteractions(<<query>>, LoadInteractions(readable))>>)
    /\ UNCHANGED interactions_file
    /\ UNCHANGED exceptMentor

\* get_stats(): total_interactions
GetStats ==
    /\ \E readable \in BOOLEAN :
          mentor_call' =
              MentorCall("get_stats", None, None, readable,
                         <<Len(LoadInteractions(readable))>>)
    /\ UNCHANGED interactions_file
    /\ UNCHANGED exceptMentor

\* How many code samples discover_patterns_from_history collects: the fenced
\* python blocks of the responses, and the queries holding 'def ' or 'class '
RECURSIVE CodeSamples(_)
CodeSamples(interactions) ==
    IF interactions = <<>> THEN 0
    ELSE LET interaction == Head(interactions)
         IN  (IF interaction.response = "(fence)python def g (fence)" THEN 1 ELSE 0)
             + (IF \E i \in 1..Len(interaction.query) : interaction.query[i] = "def f"
                THEN 1 ELSE 0)
             + CodeSamples(Tail(interactions))

\* discover_patterns_from_history(): the samples hold a singleton class or no
\* pattern at all
DiscoverPatternsFromHistory ==
    /\ \E readable \in BOOLEAN, patterns \in {<<>>, <<Singleton>>} :
          LET samples == CodeSamples(LoadInteractions(readable))
          IN  /\ Discover(samples, patterns, TRUE)
              /\ mentor_call' =
                     MentorCall("discover_patterns_from_history", None, None, readable,
                                <<samples>>)
    /\ UNCHANGED interactions_file
    /\ UNCHANGED exceptMentorAndStore

\* The mentor after construction: _init_files has written [] or found a log
MentorInit ==
    /\ interactions_file \in
           {<<>>, <<Interaction(<<"decorators">>, "use functools", 0)>>}
    /\ mentor_call = NoMentorCall

\* The mentor while it is not used
MentorIdle ==
    /\ interactions_file = <<>>
    /\ mentor_call = NoMentorCall

MentorNext ==
    \/ ChatAboutCode
    \/ SmartSearch
    \/ GetStats
    \/ DiscoverPatternsFromHistory

-----------------------------------------------------------------------------
(* The dispatcher (__main__.py) *)

\* How many flags a command line is given
MaxFlags == 2

\* The dest of every flag, in the order main tests them
Flags ==
    <<"setup", "download_docs", "ingest_docs", "discover_patterns", "pill", "inject",
      "overdose", "refill", "side_effects", "checkup", "emergency", "therapy",
      "vitals", "prescription", "analyze", "search", "doctor", "surgeon">>

\* The flags that take a value; the value may be the empty string
ValueFlags == {"download_docs", "ingest_docs", "analyze", "search"}

\* parser.parse_args(): the flags given, those given the value "", and the
\* positional file
Namespace(given, empty, file) == [given |-> given, empty |-> empty, file |-> file]

\* The command lines of at most n flags
RECURSIVE FlagSets(_)
FlagSets(n) ==
    IF n = 0 THEN {{}}
    ELSE FlagSets(n - 1) \cup
         {flags \cup {Flags[i]} : flags \in FlagSets(n - 1), i \in 1..Len(Flags)}
CommandLines ==
    UNION {{Namespace(given, empty, file) :
               empty \in SUBSET (given \cap ValueFlags), file \in {None, "", "code.py"}} :
           given \in FlagSets(MaxFlags)}

\* main(): the behaviour the chain of if statements runs before it returns
Main(args) ==
    LET tested == SelectSeq(Flags, LAMBDA flag : flag \in args.given \ args.empty)
    IN  IF tested = <<>> THEN "help"
        ELSE IF Head(tested) \in {"pill", "inject", "overdose"} /\ ~Truthy(args.file)
        THEN "usage"
        ELSE Head(tested)

\* The process is started with a command line, and main runs
DispatcherInit ==
    \E args \in CommandLines : invocation = [args |-> args, ran |-> "nothing yet"]

RunMain ==
    /\ invocation.ran = "nothing yet"
    /\ invocation' = [invocation EXCEPT !.ran = Main(invocation.args)]
    /\ UNCHANGED exceptDispatcher

\* No process is started
DispatcherIdle ==
    invocation = [args |-> Namespace({}, {}, None), ran |-> "nothing yet"]

-----------------------------------------------------------------------------
(* The two interactive sessions and the terminal (__main__.py, cli/, *)
(* utils/terminal_styling.py)                                        *)

\* How many lines a session is followed for
MaxLines == 2

\* The session of a process: where control is, the line just read, the cursor
\* and the input mode of the terminal, the old_settings of the info screen,
\* how the loop was left, and what the loop did so far
Session(mode, at, input, cursor, tty, old_settings, leaving, restored, counts) ==
    [mode |-> mode, at |-> at, input |-> input, cursor |-> cursor, tty |-> tty,
     old_settings |-> old_settings, leaving |-> leaving, restored |-> restored,
     lines |-> counts[1], handled |-> counts[2], reported |-> counts[3]]
NoSession == Session("none", "main", "", "shown", "cooked", "unset", "", FALSE, <<0, 0, 0>>)

\* The lines typed at the prompt, before strip()
Lines == {"", "  ", "how do I sort a list", "/info", "/quit", "quit"}

\* Is the stripped line the quit command the loop of the session tests for
\* (AgentCLI), or the one its command handler does (ConversationalCLI)
IsQuit(mode, input) ==
    IF mode = "surgeon" THEN input = "quit" ELSE input = "/quit"

\* main: args.doctor or args.surgeon; the try block is entered and the banner
\* is printed, or printing it raises
StartSession ==
    /\ session.at = "main"
    /\ \E mode \in {"doctor", "surgeon"}, raised \in BOOLEAN :
          session' =
              IF raised
              THEN [session EXCEPT !.mode = mode, !.at = "finally", !.leaving = "Exception"]
              ELSE [session EXCEPT !.mode = mode, !.at = "prompt"]
    /\ UNCHANGED exceptSession

\* ui.input_prompt(...).strip() and the tests of the loop on the line: the
\* cursor is shown for input() and hidden after it; an interrupt or the end of
\* input shows the cursor and exits the process
ReadInput ==
    /\ session.at = "prompt"
    /\ \/ session' = [session EXCEPT !.cursor = "shown", !.at = "finally",
                                     !.leaving = "SystemExit"]
       \/ /\ session.lines < MaxLines
          /\ \E line \in Lines :
                LET input == IF line = "  " THEN "" ELSE line
                IN  session' =
                        [session EXCEPT
                            !.cursor = "hidden", !.lines = @ + 1, !.input = input,
                            !.at = IF input = "" THEN "prompt"
                                   ELSE IF session.mode = "surgeon" /\ IsQuit("surgeon", input)
                                   THEN "finally"
                                   ELSE "handler",
                            !.leaving = IF session.mode = "surgeon" /\ IsQuit("surgeon", input)
                                        THEN "quit" ELSE ""]
    /\ UNCHANGED exceptSession

\* The handler of the line returns; after /quit the conversation loop ends
HandlerReturns ==
    /\ session.at = "handler"
    /\ ~(session.mode = "doctor" /\ session.input = "/info")
    /\ session' =
           IF IsQuit(session.mode, session.input)
           THEN [session EXCEPT !.handled = @ + 1, !.at = "finally", !.leaving = "quit"]
           ELSE [session EXCEPT !.handled = @ + 1, !.at = "prompt"]
    /\ UNCHANGED exceptSession

\* A mutation of the except clauses: every exception leaves the loop
LoopExceptLeaves(s, raised) ==
    [s EXCEPT !.handled = @ + 1, !.at = "finally", !.leaving = raised]

\* The except clauses of the loop: except Exception reports and goes on,
\* except KeyboardInterrupt and except EOFError break
LoopExcept(s, raised) ==
    IF raised = "Exception"
    THEN [s EXCEPT !.handled = @ + 1, !.reported = @ + 1, !.at = "prompt"]
    ELSE [s EXCEPT !.handled = @ + 1, !.at = "finally", !.leaving = raised]

\* The handler raises
HandlerRaises ==
    /\ session.at = "handler"
    /\ \E raised \in {"Exception", "KeyboardInterrupt", "EOFError"} :
          session' = LoopExcept(session, raised)
    /\ UNCHANGED exceptSession

\* /info: the screen is drawn, the input mode is saved with tcgetattr and
\* switched with tty.setraw; tcgetattr raises when stdin is no terminal
InfoSetsRaw ==
    /\ session.at \in {"handler", "info"}
    /\ session.mode = "doctor" /\ session.input = "/info"
    /\ \/ session' = [session EXCEPT !.at = "polling", !.old_settings = session.tty,
                                     !.tty = "raw"]
       \/ session' = [session EXCEPT !.at = "prompt", !.handled = @ + 1]
    /\ UNCHANGED exceptSession

\* select and read in raw mode: no key or another key, Escape, an interrupt,
\* or select, read or ord raising
InfoPolls ==
    /\ session.at = "polling"
    /\ \E met \in {"no key", "Escape", "KeyboardInterrupt", "error"} :
          session' =
              CASE met = "no key" ->
                       [session EXCEPT !.tty = session.old_settings, !.at = "info"]
                [] met = "Escape" ->
                       [session EXCEPT !.tty = session.old_settings, !.at = "prompt",
                                       !.handled = @ + 1]
                [] met = "KeyboardInterrupt" ->
                       [session EXCEPT !.tty = session.old_settings, !.at = "finally",
                                       !.handled = @ + 1, !.leaving = "SystemExit"]
                [] met = "error" ->
                       [session EXCEPT !.at = "prompt", !.handled = @ + 1]
    /\ UNCHANGED exceptSession

\* A mutation of restore_terminal: nothing is printed
RestoreTerminalNot(s) == s

\* ui.restore_terminal(): the cursor is shown
RestoreTerminal(s) == [s EXCEPT !.cursor = "shown", !.restored = TRUE]

\* main: the finally clause, and the process exits
ProcessExits ==
    /\ session.at = "finally"
    /\ session' = [RestoreTerminal(session) EXCEPT !.at = "exited"]
    /\ UNCHANGED exceptSession

SessionNext ==
    \/ StartSession
    \/ ReadInput
    \/ HandlerReturns
    \/ HandlerRaises
    \/ InfoSetsRaw
    \/ InfoPolls
    \/ ProcessExits

-----------------------------------------------------------------------------
(* The security analyzer and the emergency scan (core/security_analyzer.py, *)
(* __main__.py)                                                             *)

\* How many Python files the scanned directory has at most
MaxScanFiles == 6

\* python_files[:5] and critical_issues[:10]
ScanLimit == 5
PrintLimit == 10

\* class VulnerabilityLevel(Enum): member -> value, letter by letter
SeverityValue(level) ==
    CASE level = "LOW" -> <<12, 15, 23>>
      [] level = "MEDIUM" -> <<13, 5, 4, 9, 21, 13>>
      [] level = "HIGH" -> <<8, 9, 7, 8>>
      [] level = "CRITICAL" -> <<3, 18, 9, 20, 9, 3, 1, 12>>

SecurityIssue(issue_type, severity, description, line_number) ==
    [issue_type |-> issue_type, severity |-> severity, description |-> description,
     line_number |-> line_number]

\* What a Python file of the directory may be: code without findings, code
\* that does not parse ("def f(:"), the same followed by a hardcoded password,
\* code with an unverified request, a dynamic path, a hardcoded password and a
\* pickle.loads on its lines 1 to 4, and a file that cannot be opened
FileContents == {"clean", "bad", "bad secret", "mixed", "unreadable"}

\* The issues in the order the detectors of analyze_code_security add them:
\* the AST detectors when the code parses, then the regex patterns
DetectedIssues(code) ==
    CASE code = "mixed" ->
            <<SecurityIssue("hardcoded_secret", "HIGH",
                            "Hardcoded credential in variable 'password'", 3),
              SecurityIssue("path_traversal", "MEDIUM",
                            "File operation with dynamic path in open()", 2),
              SecurityIssue("unsafe_deserialization", "CRITICAL",
                            "Unsafe pickle deserialization - can execute arbitrary code", 4),
              SecurityIssue("hardcoded_password", "HIGH", "Hardcoded credentials detected", 3)>>
      [] code = "bad secret" ->
            <<SecurityIssue("hardcoded_password", "HIGH", "Hardcoded credentials detected", 2)>>
      [] OTHER -> <<>>

\* compile(code, str(file_path), 'exec') returns
Compiles(code) == code \notin {"bad", "bad secret"}

\* key=lambda x: (x.severity.value, x.line_number)
IssueKeyLess(a, b) ==
    \/ StrLess(SeverityValue(a.severity), SeverityValue(b.severity))
    \/ /\ a.severity = b.severity
       /\ a.line_number < b.line_number

\* sorted(issues, key=...): stable, an issue goes behind those whose key is
\* not greater
RECURSIVE SortIssues(_, _)
SortIssues(issues, sorted) ==
    IF issues = <<>> THEN sorted
    ELSE LET issue == Head(issues)
             before == SelectSeq(sorted, LAMBDA s : ~IssueKeyLess(issue, s))
             behind == SelectSeq(sorted, LAMBDA s : IssueKeyLess(issue, s))
         IN  SortIssues(Tail(issues), before \o <<issue>> \o behind)

\* SecurityPatternAnalyzer.analyze_code_security(code, filename)
AnalyzeCodeSecurity(code) == SortIssues(DetectedIssues(code), <<>>)

Finding(file, type, issue) == [file |-> file, type |-> type, issue |-> issue]

\* The body of the scan loop for the file at place `file`. The analyzer returns
\* SecurityIssue objects, and issue.get(...) on the first of them raises
\* AttributeError, which the outer except clause records as an ACCESS finding;
\* the compile check is reached when there is no issue to loop over.
ScanFile(file, code) ==
    IF code = "unreadable"
    THEN <<Finding(file, "ACCESS", "Cannot read file: [Errno 13] Permission denied")>>
    ELSE IF AnalyzeCodeSecurity(code) # <<>>
    THEN <<Finding(file, "ACCESS",
                   "Cannot read file: 'SecurityIssue' object has no attribute 'get'")>>
    ELSE IF ~Compiles(code)
    THEN <<Finding(file, "SYNTAX", "Syntax error: invalid syntax at line 1")>>
    ELSE <<>>

\* for file_path in python_files[:5], from place `file` on
RECURSIVE ScanFiles(_, _)
ScanFiles(python_files, file) ==
    IF file > Len(python_files) \/ file > ScanLimit THEN <<>>
    ELSE ScanFile(file, python_files[file]) \o ScanFiles(python_files, file + 1)

Emergency(at, python_files, security_issues, critical_issues, printed) ==
    [at |-> at, python_files |-> python_files, security_issues |-> security_issues,
     critical_issues |-> critical_issues, printed |-> printed]
NoEmergency == Emergency("none", <<>>, <<>>, <<>>, <<>>)

\* The directories: python_files, each file given by what it holds
RECURSIVE FileLists(_)
FileLists(n) ==
    IF n = 0 THEN {<<>>}
    ELSE FileLists(n - 1) \cup
         {Append(files, code) : files \in FileLists(n - 1), code \in FileContents}

\* _emergency_response(directory); security_issues keeps what the analyzer
\* returned for each file that was read
EmergencyResponse ==
    /\ emergency.at = "start"
    /\ LET python_files == emergency.python_files
           scanned == IF Len(python_files) < ScanLimit THEN Len(python_files) ELSE ScanLimit
           critical_issues == ScanFiles(python_files, 1)
       IN  emergency' =
               Emergency("done", python_files,
                         [file \in 1..scanned |->
                             IF python_files[file] = "unreadable" THEN <<>>
                             ELSE AnalyzeCodeSecurity(python_files[file])],
                         critical_issues, SubSeq(critical_issues, 1,
                                    IF Len(critical_issues) < PrintLimit
                                    THEN Len(critical_issues) ELSE PrintLimit))
    /\ UNCHANGED exceptEmergency

\* The process before --emergency runs, over some directory
EmergencyInit ==
    \E python_files \in FileLists(MaxScanFiles) :
       emergency = Emergency("start", python_files, <<>>, <<>>, <<>>)

-----------------------------------------------------------------------------
(* Specifications *)

\* The parts that an agent session or a conversation does not use
ToolsIdle ==
    MentorIdle /\ StoreIdle /\ DocsInit /\ RefactorIdle /\ DispatcherIdle /\ session = NoSession /\ emergency = NoEmergency

\* The agent session
Init == AgentInit /\ ChatIdle /\ ToolsIdle
Spec == Init /\ [][AgentNext]_vars

\* Autonomous sessions whose handlers return: a task in execution is
\* completed or failed in the end, and the loop of run_autonomous_session
\* takes its next step. No fairness for the clock, the user or Ctrl+C.
AutoSessionNext ==
    \/ Tick
    \/ Plan
    \/ CmdAuto
    \/ AutoNext
    \/ AutoEnds
    \/ TaskCompletes
    \/ TaskFails
    \/ Interrupt

SpecAuto ==
    /\ Init
    /\ [][AutoSessionNext]_vars
    /\ WF_vars(AutoNext \/ AutoEnds)
    /\ WF_vars(TaskCompletes \/ TaskFails)

\* A conversation with the AI interface
InitChat == AgentIdle /\ ChatInit /\ ToolsIdle
SpecChat == InitChat /\ [][ChatNext]_vars

\* Questions asked while no backend is reachable
InitOffline == AgentIdle /\ OfflineInit /\ ToolsIdle
SpecOffline == InitOffline /\ [][OfflineNext]_vars

\* The mentor
InitMentor == AgentIdle /\ ChatIdle /\ MentorInit /\ StoreIdle /\ DocsInit /\ RefactorIdle /\ DispatcherIdle /\ session = NoSession /\ emergency = NoEmergency
SpecMentor == InitMentor /\ [][MentorNext]_vars

\* The pattern store
InitStore == AgentIdle /\ ChatIdle /\ MentorIdle /\ StoreInit /\ DocsInit /\ RefactorIdle /\ DispatcherIdle /\ session = NoSession /\ emergency = NoEmergency
SpecStore == InitStore /\ [][StoreNext]_vars

\* The detector of common AST sequences
InitAst ==
    /\ AgentIdle /\ ChatIdle /\ MentorIdle /\ DocsInit /\ RefactorIdle /\ DispatcherIdle
    /\ session = NoSession /\ emergency = NoEmergency
    /\ patterns_file = PatternsFile("absent", NoPatterns)
    /\ discovered_patterns = NoPatterns
    /\ \E code_samples \in SampleBatches(MaxSamples) :
          discovery = Discovery("code_samples", code_samples, {}, FALSE)
SpecAst == InitAst /\ [][DiscoverAstPatterns]_vars

\* The emergency scan
InitEmergency ==
    /\ AgentIdle /\ ChatIdle /\ MentorIdle /\ StoreIdle /\ DocsInit /\ RefactorIdle
    /\ DispatcherIdle /\ session = NoSession /\ EmergencyInit
SpecEmergency == InitEmergency /\ [][EmergencyResponse]_vars

\* The documentation processor
InitDocs == AgentIdle /\ ChatIdle /\ MentorIdle /\ StoreIdle /\ DocsInit /\ RefactorIdle /\ DispatcherIdle /\ session = NoSession /\ emergency = NoEmergency
SpecDocs == InitDocs /\ [][DocsNext]_vars

\* Refactor tasks
InitRefactor == AgentIdle /\ ChatIdle /\ MentorIdle /\ StoreIdle /\ DocsInit /\ RefactorInit /\ DispatcherIdle /\ session = NoSession /\ emergency = NoEmergency
SpecRefactor == InitRefactor /\ [][RefactorNext]_vars

\* The dispatcher
InitDispatcher ==
    AgentIdle /\ ChatIdle /\ MentorIdle /\ StoreIdle /\ DocsInit /\ RefactorIdle /\ DispatcherInit
    /\ session = NoSession /\ emergency = NoEmergency
SpecDispatcher == InitDispatcher /\ [][RunMain]_vars

\* A process that runs an interactive session
InitSession == AgentIdle /\ ChatIdle /\ ToolsIdle
SpecSession == InitSession /\ [][SessionNext]_vars

-----------------------------------------------------------------------------
(* Properties of the agent *)

TaskStates == {"execute_task", "auto_task"}
LoopStates == {"execute", "auto"}

\* A pending task whose prerequisites are all in the task map and completed
Eligible(ts, t) ==
    /\ t.status = "PENDING"
    /\ \A i \in 1..Len(t.prerequisites) :
          /\ t.prerequisites[i] \in Ids(ts)
          /\ Get(ts, t.prerequisites[i]).status = "COMPLETED"

\* C1: execute_next_task starts a task only if it is pending and each of its
\* prerequisites is in the task map and completed (a prerequisite that is not
\* in the map keeps the task from starting), and a call of execute_next_task
\* made while some such task exists does start a task.
C1_StartsOnlyReady ==
    [][/\ (cur = NoId /\ cur' # NoId) =>
             /\ cur' \in Ids(tasks)
             /\ Eligible(tasks, Get(tasks, cur'))
             /\ Get(tasks', cur').status = "IN_PROGRESS"
       /\ (/\ pc = "execute"
           /\ loop.count > 0
           /\ \E i \in 1..Len(tasks) : Eligible(tasks, tasks[i]))
          => pc' # "prompt"]_agentVars

\* C1 witness: B, whose prerequisite is A, is being executed and A is completed
C1_Witness ==
    /\ cur = TaskB.id
    /\ Get(tasks, TaskB.id).status = "IN_PROGRESS"
    /\ Get(tasks, TaskA.id).status = "COMPLETED"

AllowedStatusChanges ==
    {<<"PENDING", "IN_PROGRESS">>, <<"IN_PROGRESS", "COMPLETED">>,
     <<"IN_PROGRESS", "FAILED">>}

\* C2: within a session (plan, execute, auto, stop), the status of a task of
\* the task map changes only along pending -> in_progress -> completed or
\* failed; a completed or failed task keeps its status and is not started
\* again; no task becomes blocked.
C2_StatusMachine ==
    [][pc # "ended" =>
          \A i \in 1..Len(tasks) :
             tasks[i].id \in Ids(tasks') =>
                LET before == tasks[i].status
                    after == Get(tasks', tasks[i].id).status
                IN /\ before # after => <<before, after>> \in AllowedStatusChanges
                   /\ before # "BLOCKED" => after # "BLOCKED"]_agentVars

\* C3: an autonomous session runs at most max_tasks tasks, completed and
\* failed counted together, and starts no task once that count is reached.
C3_CombinedLimit ==
    /\ pc = "auto" => loop.results_completed + loop.results_failed <= loop.max_tasks
    /\ pc = "auto_task" => loop.results_completed + loop.results_failed < loop.max_tasks

\* C4: an interrupt during an autonomous session lets the task in flight
\* finish: once control is back at the prompt, no task is in_progress.
C4_NoTaskLeftInProgress ==
    pc = "prompt" =>
        \A i \in 1..Len(tasks) : tasks[i].status # "IN_PROGRESS"

\* C5: a handler that raises (the unknown task type included) leaves its task
\* failed with the exception text as error message, execute_next_task returns
\* to the loop that called it, and the loop goes on: with iterations left and
\* a ready task, it starts the next task.
C5_FailureIsolated ==
    [][/\ (/\ pc \in TaskStates
           /\ Get(tasks', cur).status = "FAILED")
          => /\ Get(tasks', cur).error_message \in RaisedBy(Get(tasks, cur))
             /\ pc' = LoopOf(pc)
             /\ loop'.tasks_completed = loop.tasks_completed
       /\ (/\ pc \in TaskStates
           /\ Get(tasks, cur).task_type \notin KnownTypes
           /\ pc' \in LoopStates)
          => /\ Get(tasks', cur).status = "FAILED"
             /\ Get(tasks', cur).error_message = UnknownTypeError(Get(tasks, cur).task_type)
       /\ (/\ pc = "execute"
           /\ loop.count > 0
           /\ ReadyTasks(tasks) # <<>>)
          => pc' \in {"execute_task", "ended"}
       /\ (/\ pc = "auto"
           /\ SessionContinues(loop, is_running, now)
           /\ ReadyTasks(tasks) # <<>>)
          => (pc' = "auto_task" \/ (pc' = "prompt" /\ ~is_running'))]_agentVars

\* C5 witness: an autonomous session is executing a task after an earlier
\* task of the session has failed
C5_Witness ==
    /\ pc = "auto_task"
    /\ loop.results_failed >= 1
    /\ \E i \in 1..Len(tasks) :
          tasks[i].status = "FAILED" /\ tasks[i].error_message # None

\* C6: when execute_next_task has returned a task, the state file holds the
\* whole task map: the agent constructed over it has the same tasks, field by
\* field; and saving then loading is the identity on every task map reached.
C6_SaveLoadIdentity ==
    /\ (/\ pc \in LoopStates
        /\ loop.executed + loop.results_completed + loop.results_failed > 0)
       => LoadAgentState(disk).tasks = tasks
    /\ LoadAgentState(SavedState(tasks, execution_log, agent_memory)).tasks = tasks

\* C6 witness: a session has run one task to completion and one to failure
C6_Witness ==
    /\ pc = "auto"
    /\ loop.results_completed >= 1
    /\ loop.results_failed >= 1

\* A state file that is corrupt, or holds a record no Task can be built from
BadFile(file) ==
    \/ file.kind = "corrupt"
    \/ /\ file.kind = "json"
       /\ \E i \in 1..Len(file.tasks) : ~Loadable(file.tasks[i])

\* C7: an agent constructed over a corrupt or partially-shaped state file
\* starts empty: no tasks, an empty execution log, an empty agent memory.
C7_BadFileStartsEmpty ==
    [][(pc = "ended" /\ pc' = "prompt" /\ BadFile(disk))
          => /\ tasks' = <<>>
             /\ execution_log' = <<>>
             /\ agent_memory' = {}]_agentVars

\* The place of a priority in the order of the labels as Python strings:
\* "critical" < "high" < "low" < "medium"
LabelOrder(p) ==
    CASE p = "CRITICAL" -> 0 [] p = "HIGH" -> 1 [] p = "LOW" -> 2 [] p = "MEDIUM" -> 3

PendingCount(ts) == Cardinality({i \in 1..Len(ts) : ts[i].status = "PENDING"})

\* C24: an autonomous session whose handlers return terminates, whatever the
\* task map, max_tasks and the time limit: each iteration takes one task out
\* of the pending ones and leaves it completed or failed, no step of the
\* session gives a task back to the pending ones, and a session that is
\* running is back at the prompt in the end.
C24_AutoSessionTerminates ==
    /\ [][/\ (pc = "auto" /\ pc' = "auto_task")
             => PendingCount(tasks') = PendingCount(tasks) - 1
          /\ (pc = "auto_task" /\ pc' = "auto")
             => /\ Get(tasks', cur).status \in {"COMPLETED", "FAILED"}
                /\ PendingCount(tasks') = PendingCount(tasks)
          /\ (pc \in {"auto", "auto_task"})
             => PendingCount(tasks') <= PendingCount(tasks)]_agentVars
    /\ (pc \in {"auto", "auto_task"}) ~> (pc = "prompt")

\* C24 witness: a session that has executed two tasks and is within its
\* limits finds no task ready
C24_Witness ==
    /\ pc = "auto"
    /\ loop.results_completed + loop.results_failed >= 2
    /\ SessionContinues(loop, is_running, now)
    /\ ReadyTasks(tasks) = <<>>

\* C26: planning never replaces a task: when analyze_and_plan has added k
\* tasks (k "Added task" entries in the log), the task map has k more entries
\* than before and every task it held before is still there with the same
\* status and results, also when the clock has not moved since the last plan.
C26_PlanningOnlyAdds ==
    [][(pc = "prompt" /\ pc' = "prompt" /\ execution_log' # execution_log) =>
          /\ Len(tasks') = Len(tasks) + (Added(execution_log') - Added(execution_log))
          /\ \A i \in 1..Len(tasks) :
                /\ tasks[i].id \in Ids(tasks')
                /\ Get(tasks', tasks[i].id).status = tasks[i].status
                /\ Get(tasks', tasks[i].id).results = tasks[i].results]_agentVars

\* C27: whenever the session waits at its prompt, the state file holds the
\* task map of the agent: an agent constructed over the file (the session
\* after quit and restart) has the same tasks, those made by plan included
\* and those removed by clear gone.
C27_PromptStateIsOnDisk ==
    pc = "prompt" => LoadAgentState(disk).tasks = tasks

-----------------------------------------------------------------------------
(* Properties of the AI interface *)

\* The last call was an exchange with the backend: chat got a response
Exchanged ==
    /\ asked.returned
    /\ asked.op \in {"chat", "analyze_and_chat"}
    /\ asked.available
    /\ ~GenerateResponse(asked.http).none

\* C8: the conversation history holds at most 20 entries, user and assistant
\* entries alternating from a user entry, and it is the last 20 entries, in
\* order, of all that was appended since the last clear_history; after an
\* exchange it ends with the user message as given and the response as it came.
C8_RollingHistory ==
    /\ Len(conversation_history) <= 20
    /\ Len(conversation_history) % 2 = 0
    /\ \A i \in 1..Len(conversation_history) :
          conversation_history[i].role = (IF i % 2 = 1 THEN "user" ELSE "assistant")
    /\ conversation_history =
          SubSeq(appended, Len(appended) - Len(conversation_history) + 1, Len(appended))
    /\ Len(conversation_history) = (IF Len(appended) > 20 THEN 20 ELSE Len(appended))
    /\ Exchanged =>
          /\ Len(conversation_history) >= 2
          /\ conversation_history[Len(conversation_history) - 1] =
                Entry("user", asked.message)
          /\ conversation_history[Len(conversation_history)] =
                Entry("assistant", reply)
          /\ reply = GenerateResponse(asked.http).text

\* C8 witness: more than 20 entries were appended, the analysis prompt among
\* them, and the last call was an exchange
C8_Witness ==
    /\ Exchanged
    /\ Len(appended) > 20
    /\ \E i \in 1..Len(conversation_history) :
          Len(conversation_history[i].content) > Len(PromptHead)

\* The POST did not go through
TransportFailed(http) == http.transport # "ok"

\* The reply has a status outside 200..299
BadStatus(http) == http.transport = "ok" /\ http.status \notin 200..299

\* The reply is a 2xx without a text at message.content
NoTextAtContent(http) ==
    /\ http.transport = "ok"
    /\ http.status \in 200..299
    /\ ~(http.json = "object" /\ http.message = "object" /\ http.content = "string")

\* The reply is a 2xx JSON object that lacks the key "message", or whose
\* message is an object that lacks the key "content"
KeyAbsent(http) ==
    /\ http.transport = "ok"
    /\ http.status \in 200..299
    /\ http.json = "object"
    /\ \/ http.message = "absent"
       \/ http.message = "object" /\ http.content = "absent"

\* chat returns the offline answer and leaves the history as it was
AnswersOffline ==
    /\ reply' = FallbackResponse(asked.message, asked.ml_context)
    /\ conversation_history' = conversation_history

KeywordGroup(text) ==
    IF Contains(text, Kw_decorator) THEN 1
    ELSE IF Contains(text, Kw_singleton) \/ Contains(text, Kw_design_pattern) THEN 2
    ELSE IF \/ Contains(text, Kw_exception) \/ Contains(text, Kw_error)
            \/ Contains(text, Kw_try) \/ Contains(text, Kw_catch) THEN 3
    ELSE IF Contains(text, Kw_comprehension) THEN 4
    ELSE IF \/ Contains(text, Kw_class) \/ Contains(text, Kw_object)
            \/ Contains(text, Kw_oop) THEN 5
    ELSE IF Contains(text, Kw_analyze) \/ Contains(text, Kw_code) THEN 6
    ELSE 7

\* The texts an answer of each group starts with
GroupTexts ==
    <<{DecoratorsText}, {PatternsText}, {ExceptionsText}, {ComprehensionsText},
      {ClassesText}, {AnalyzeText, "**Code Analysis Results**"}, {GeneralText}>>

\* C10: with no backend reachable, the answer of chat is that of the first
\* keyword group matching the message in lower case; a message containing
\* 'decorator' gets the decorator explanation, alone or followed by the note
\* on the patterns of the codebase, whatever else it contains; and the answer
\* is a function of the message and the context.
C10_FirstKeywordGroup ==
    (asked.returned /\ asked.op = "chat" /\ ~asked.available) =>
        /\ reply # <<>>
        /\ reply[1] \in GroupTexts[KeywordGroup(Lower(asked.message))]
        /\ Contains(Lower(asked.message), Kw_decorator) =>
              \/ reply = <<DecoratorsText>>
              \/ /\ Len(reply) = 4
                 /\ SubSeq(reply, 1, 2) =
                       <<DecoratorsText, "**From Your Codebase:** Found ">>
        /\ reply = FallbackResponse(asked.message, asked.ml_context)

\* C10 witness: a message with 'Decorator' and 'error' in it was answered with
\* the decorator explanation and the note on the patterns of the codebase
C10_Witness ==
    /\ asked.returned
    /\ ~asked.available
    /\ Contains(asked.message, Word_Decorator)
    /\ Contains(asked.message, Kw_error)
    /\ reply[1] = DecoratorsText
    /\ Len(reply) = 4

\* Whether a text holds 'decorator' in any letter case
NamesDecorator(text) == Contains(Lower(text), Kw_decorator)

C30_DecoratorCase ==
    /\ asked.returned
    /\ asked.op = "analyze_and_chat"
    /\ ~asked.available
    /\ asked.message = AnalysisPrompt(Word_Decorator, <<>>)
    /\ reply = <<DecoratorsText>>

-----------------------------------------------------------------------------
(* Properties of the mentor *)

IsPrefix(earlier, later) ==
    Len(earlier) <= Len(later) /\ SubSeq(later, 1, Len(earlier)) = earlier

\* The query chat_about_code records for its arguments
RecordedQuery(code, question) ==
    IF Truthy(code)
    THEN <<"Code analysis: ", IF Truthy(question) THEN question ELSE "General analysis">>
    ELSE <<question>>

\* C11 as stated: every call of chat_about_code, also the call with neither
\* code nor question, makes the interaction log exactly one record longer.
C11_EveryCallAppends ==
    [][mentor_call'.op = "chat_about_code" =>
           Len(interactions_file') = Len(interactions_file) + 1]_vars

\* C11, amended: a call of chat_about_code with code or with a question leaves
\* a log whose last record holds the query and the response of the call and
\* whose other records are old ones; a call with neither (None or "") returns
\* the request for input and leaves the log as it is.
C11_CallWithInputAppends ==
    [][mentor_call'.op = "chat_about_code" =>
           IF Truthy(mentor_call'.code) \/ Truthy(mentor_call'.question)
           THEN /\ interactions_file' # <<>>
                /\ LET last == interactions_file'[Len(interactions_file')]
                   IN  /\ last.query =
                              RecordedQuery(mentor_call'.code, mentor_call'.question)
                       /\ <<last.response>> = mentor_call'.returned
                       /\ last.timestamp \in Clock
                /\ IsPrefix(SubSeq(interactions_file', 1, Len(interactions_file') - 1),
                            interactions_file)
           ELSE /\ interactions_file' = interactions_file
                /\ mentor_call'.returned =
                       <<"Please provide either code to analyze or a question to ask!">>]_vars

\* A call with code and a question has added the second record of the log
C11_Witness ==
    /\ mentor_call.op = "chat_about_code"
    /\ Truthy(mentor_call.code) /\ Truthy(mentor_call.question)
    /\ mentor_call.readable
    /\ Len(interactions_file) = 2
    /\ interactions_file[2].query = <<"Code analysis: ", mentor_call.question>>

\* C12: the interaction log is append-only: after every operation of the
\* mentor the persisted log has the log persisted before as a prefix, also when
\* the file cannot be read or parsed while a record is added.
C12_AppendOnly ==
    [][IsPrefix(interactions_file, interactions_file')]_vars

-----------------------------------------------------------------------------
(* Properties of the pattern store *)

\* C13: the store keeps exactly one entry per canonical pattern string. A
\* discovery adds an entry only for a string that is not stored yet, leaves for
\* every string it found the dict of its most recent finding (frequency and
\* description included), and keeps every entry of another string as it was.
C13_OneEntryPerPattern ==
    [][discovery'.op = "discover_patterns" /\ discovery'.samples > 0 =>
          LET found == discovery'.patterns
              strings == {found[i].pattern : i \in 1..Len(found)}
              Stored(store, string) == {id \in DOMAIN store : store[id].pattern = string}
          IN  /\ \A i \in 1..Len(found) :
                     (\A j \in (i + 1)..Len(found) : found[j].pattern # found[i].pattern)
                     => \E id \in DOMAIN discovered_patterns' :
                            /\ discovered_patterns'[id] = found[i]
                            /\ Stored(discovered_patterns', found[i].pattern) = {id}
              /\ \A id \in DOMAIN discovered_patterns :
                     discovered_patterns[id].pattern \notin strings
                     => /\ id \in DOMAIN discovered_patterns'
                        /\ discovered_patterns'[id] = discovered_patterns[id]
              /\ Cardinality(DOMAIN discovered_patterns') =
                     Cardinality({discovered_patterns[id].pattern :
                                     id \in DOMAIN discovered_patterns} \cup strings)
              /\ discovery'.saved =>
                     patterns_file' = PatternsFile("json", discovered_patterns')]_vars

\* A later run has found the stored AST sequence again, in 4 samples: the store
\* holds that frequency, next to the design pattern an earlier run stored
C13_Witness ==
    /\ discovery.op = "discover_patterns"
    /\ discovery.patterns = <<NodeSequence(4)>>
    /\ DOMAIN discovered_patterns = {PatternId("Singleton"), PatternId(NodeSequence(4).pattern)}
    /\ discovered_patterns[PatternId(NodeSequence(4).pattern)].frequency = 4
    /\ discovered_patterns[PatternId("Singleton")] = Singleton
    /\ patterns_file = PatternsFile("json", discovered_patterns)

-----------------------------------------------------------------------------
(* Properties of the documentation processor *)

\* C14: re-ingestion replaces the whole batch: after an ingestion that
\* processed documents, the embedding map and the lookup index, in memory and
\* as persisted, hold exactly the documents of the path just ingested, the
\* identities of the persisted batch, and no document of an earlier path only.
C14_ReingestionReplaces ==
    ingested.op = "ingest_documentation" /\ ingested.returned > 0 =>
        LET batch == {docs_dir.processed_docs[i].id :
                         i \in 1..Len(docs_dir.processed_docs)}
        IN  /\ batch = {DocId(DocFilesUnder(ingested.docs_path)[i]) :
                            i \in 1..Len(DocFilesUnder(ingested.docs_path))}
            /\ DOMAIN doc_embeddings = batch
            /\ DOMAIN doc_index = batch
            /\ DOMAIN docs_dir.embeddings = batch
            /\ DOMAIN docs_dir.index = batch

\* C15: ingest_documentation on a path that does not exist, that is not
\* readable, or that yields no processed document returns 0 and leaves the
\* embedding map, the index and the three persisted artifacts as they were.
C15_FailedIngestionChangesNothing ==
    [][ingested'.op = "ingest_documentation"
       /\ ingested'.docs_path \in {"missing", "locked", "drafts"} =>
           /\ ingested'.returned = 0
           /\ UNCHANGED <<doc_embeddings, doc_index, docs_dir>>]_vars

\* An ingestion that processed nothing has returned 0 over a built index
C15_Witness ==
    /\ ingested = Ingestion("ingest_documentation", "drafts", 0)
    /\ docs_dir.kind = "saved"
    /\ DOMAIN doc_index = {DocId("docs_b/guide.txt")}
    /\ docs_dir.index = doc_index

-----------------------------------------------------------------------------
(* Properties of the refactor task *)

\* C16: a refactor task overwrites a target only after it has written a backup
\* file that holds exactly what the target held before the rewrite; when the
\* rewrite equals the original, neither a backup nor the target is written.
C16_BackupBeforeOverwrite ==
    [][/\ \A file_path \in Targets :
              project_files'[TargetPath(file_path)] # project_files[TargetPath(file_path)]
              => \E time \in 0..MaxRefactorClock :
                     project_files[BackupPath(file_path, time)] =
                         project_files[TargetPath(file_path)]
       /\ refactoring'.at = "suggest" /\ refactoring.at = "loop"
              => /\ refactoring'.refactored_code = refactoring'.original_code
                 /\ UNCHANGED project_files]_vars

-----------------------------------------------------------------------------
(* Properties of the dispatcher *)

\* C17: an invocation runs exactly one behaviour, that of the first flag
\* present in the order setup, download-docs, ingest-docs, discover-patterns,
\* pill|inject|overdose, refill, side-effects, checkup, emergency, therapy,
\* vitals, prescription, doctor, surgeon, analyze, search, and the help when
\* none is present; pill|inject|overdose without a file prints the usage.
C17_ListedPrecedence ==
    LET listed ==
            <<"setup", "download_docs", "ingest_docs", "discover_patterns", "pill",
              "inject", "overdose", "refill", "side_effects", "checkup", "emergency",
              "therapy", "vitals", "prescription", "doctor", "surgeon", "analyze",
              "search">>
        present == SelectSeq(listed, LAMBDA flag : flag \in invocation.args.given)
    IN  invocation.ran # "nothing yet" /\ invocation.args.empty = {} =>
            invocation.ran =
                IF present = <<>> THEN "help"
                ELSE IF Head(present) \in {"pill", "inject", "overdose"}
                        /\ ~Truthy(invocation.args.file)
                THEN "usage"
                ELSE Head(present)

-----------------------------------------------------------------------------
(* Properties of the interactive sessions *)

\* C18: when a session started by the dispatcher has ended, by a quit command,
\* an interrupt or the end of input, or an exception that escaped the loop,
\* restore_terminal has run before the process exits and the cursor is shown.
C18_TerminalRestoredAtExit ==
    session.at = "exited" => session.restored /\ session.cursor = "shown"

\* An agent session was interrupted in a handler, while the cursor was hidden,
\* and the process has exited
C18_Witness ==
    /\ session.at = "exited"
    /\ session.mode = "surgeon"
    /\ session.leaving = "KeyboardInterrupt"
    /\ session.handled = 2

\* C19: on every path by which the info screen returns to the conversation or
\* exits the process, the input mode saved before the switch to raw mode has
\* been restored.
C19_InputModeRestored ==
    session.at # "polling" => session.tty = "cooked"

\* C20: an exception raised in a handler is reported inline and the loop reads
\* the next input; the loop is left only by the quit command, an interrupt or
\* the end of input; an empty line runs no handler.
C20_LoopSurvivesHandlerErrors ==
    [][/\ session'.reported # session.reported =>
              /\ session.at = "handler"
              /\ session'.reported = session.reported + 1
              /\ session'.at = "prompt"
       /\ session.at \in {"prompt", "handler", "info", "polling"}
          /\ session'.at \notin {"prompt", "handler", "info", "polling"} =>
              /\ session'.at = "finally"
              /\ session'.leaving \in {"quit", "KeyboardInterrupt", "EOFError", "SystemExit"}
              /\ session'.leaving = "quit" =>
                     session'.input = IF session.mode = "surgeon" THEN "quit" ELSE "/quit"
       /\ session.at = "prompt" /\ session'.lines # session.lines /\ session'.input = "" =>
              /\ session'.at = "prompt"
              /\ session'.handled = session.handled]_vars

\* A handler raised and was reported, and the handler of the next line runs
C20_Witness ==
    /\ session.reported = 1
    /\ session.handled = 1
    /\ session.lines = 2
    /\ session.at = "handler"

\* C28: a backup, once written, is never written again: whatever a backup
\* file holds it holds for good, so that the content a target had before each
\* of its rewrites stays in some backup, also when the same target is
\* rewritten twice within one second of the clock.
C28_BackupsAreKept ==
    [][\A file_path \in Targets, time \in 0..MaxRefactorClock :
          project_files[BackupPath(file_path, time)] # AbsentFile =>
             project_files'[BackupPath(file_path, time)] =
                 project_files[BackupPath(file_path, time)]]_vars

-----------------------------------------------------------------------------
(* Properties of the detector of common AST sequences *)

\* Whether subseq is a contiguous part of sequence
OccursIn(subseq, sequence) ==
    \E i \in 1..(Len(sequence) - Len(subseq) + 1) :
       SubSeq(sequence, i, i + Len(subseq) - 1) = subseq

\* The samples of a batch that parse and hold subseq
SamplesWith(code_samples, subseq) ==
    {k \in 1..Len(code_samples) :
        /\ ExtractNodeSequence(code_samples[k]) # <<"SyntaxError">>
        /\ OccursIn(subseq, ExtractNodeSequence(code_samples[k]))}

\* C25: a contiguous subsequence of three or more node kinds is reported as an
\* ast_sequence pattern exactly when it occurs in more than 2 of the samples
\* of the batch that parse; occurring three times inside one or two samples
\* does not make it a pattern.
C25_ReportedIffInThreeSamples ==
    discovery.op = "_discover_ast_patterns" =>
       \A k \in 1..Len(discovery.samples) :
          LET sequence == ExtractNodeSequence(discovery.samples[k]) IN
          \A ij \in Slices(sequence, 3) :
             LET subseq == SubSeq(sequence, ij[1], ij[2]) IN
             sequence # <<"SyntaxError">> =>
                ((\E pattern \in discovery.patterns : pattern.pattern = JoinArrow(subseq))
                   <=> Cardinality(SamplesWith(discovery.samples, subseq)) > 2)

-----------------------------------------------------------------------------
(* Properties of the security analyzer and the emergency scan *)

\* The place of a severity in the progression low < medium < high < critical
Progression(level) ==
    CASE level = "LOW" -> 0 [] level = "MEDIUM" -> 1 [] level = "HIGH" -> 2
      [] level = "CRITICAL" -> 3

\* C21: the issues analyze_code_security returns are in the order of
\* (severity, line number), the severities in the progression low < medium <
\* high < critical and the issues of one severity by ascending line.
C21_SortedBySeverityProgression ==
    emergency.at = "done" =>
       \A file \in 1..Len(emergency.security_issues) :
          LET issues == emergency.security_issues[file] IN
          \A i \in 1..(Len(issues) - 1) :
             \/ Progression(issues[i].severity) < Progression(issues[i + 1].severity)
             \/ /\ issues[i].severity = issues[i + 1].severity
                /\ issues[i].line_number <= issues[i + 1].line_number

\* The descriptions that mention injection, eval, exec or hardcoded, in lower case
MentionsCriticalWord(description) ==
    description \in {"Hardcoded credential in variable 'password'",
                     "Unsafe pickle deserialization - can execute arbitrary code",
                     "Hardcoded credentials detected"}

FindingsOf(file, type) ==
    Len(SelectSeq(emergency.critical_issues,
                  LAMBDA finding : finding.file = file /\ finding.type = type))

\* C22: the emergency scan looks at the first 5 files at most; for each file
\* it could read it has one SECURITY finding per issue of the file whose
\* description mentions injection, eval, exec or hardcoded, and one SYNTAX
\* finding when the file does not compile; it prints the first 10 findings
\* at most.
C22_EmergencyFindings ==
    emergency.at = "done" =>
       /\ \A i \in 1..Len(emergency.critical_issues) :
             emergency.critical_issues[i].file <= ScanLimit
       /\ \A file \in 1..Len(emergency.security_issues) :
             emergency.python_files[file] # "unreadable" =>
                /\ FindingsOf(file, "SECURITY") =
                      Len(SelectSeq(emergency.security_issues[file],
                                    LAMBDA issue : MentionsCriticalWord(issue.description)))
                /\ FindingsOf(file, "SYNTAX") =
                      (IF Compiles(emergency.python_files[file]) THEN 0 ELSE 1)
       /\ Len(emergency.printed) <= PrintLimit
       /\ IsPrefix(emergency.printed, emergency.critical_issues)

====
